---- MODULE Spec2Model ----
(***************************************************************************)
(* Token balance acquisition and burn-call construction of the token       *)
(* burner mini app: the retry-wrapped fetch, the GET /api/tokens/{address} *)
(* route with its two providers, the client-side priority/full scans and   *)
(* the burn call builders.                                                 *)
(***************************************************************************)
EXTENDS Integers, Sequences, FiniteSets, TLC

VARIABLES
    fr,     \* the running fetchWithRetry activation
    rt,     \* the running GET /api/tokens/{address} activation
    tb,     \* the state of the TokenBurner component of token-burner.tsx
    scan,   \* the running fetchPriorityTokens / fetchAllTokens activation
    lib,    \* the running call of a burn call builder
    bt,     \* the state of the batch component of batch-transfer-example.tsx
    sq,     \* the burn of token-burner.tsx: handleBurnTokens and wagmi's hooks
    sel     \* a selection set and the handleTokenSelect calls made on it

vars == <<fr, rt, tb, scan, lib, bt, sq, sel>>

(***************************************************************************)
(* Bounds of the model.                                                    *)
(***************************************************************************)
\* largest explicit `retries` argument handed to fetchWithRetry
MaxRetries == 4

(***************************************************************************)
(* fetchWithRetry (token-burner.tsx 69-91; route.ts 39-56 is the same      *)
(* function without the onRetry parameter).                                *)
(***************************************************************************)
\* `retries = 3`: the default of the parameter
DefaultRetries == 3

\* an omitted (undefined) argument
Undefined == -1

\* HTTP statuses the remote end answers with; NetworkFailure is fetch() rejecting
Statuses == {200, 304, 500}
NetworkFailure == 0
Outcomes == Statuses \cup {NetworkFailure}

\* Response.ok
ResponseOk(status) == status >= 200 /\ status <= 299

\* Error values, by message: new Error(`HTTP ${status}`), fetch's rejection,
\* new Error("Max retries exceeded")
NoError == [msg |-> "", status |-> 0]
HTTPError(status) == [msg |-> "HTTP", status |-> status]
NetworkError == [msg |-> "fetch failed", status |-> 0]
MaxRetriesError == [msg |-> "Max retries exceeded", status |-> 0]

\* Math.pow(2, i)
RECURSIVE Pow2(_)
Pow2(i) == IF i <= 0 THEN 1 ELSE 2 * Pow2(i - 1)

\* BackoffDelay with a linear backoff, (i + 1) * 1000
BackoffDelay_Linear(i) == (i + 1) * 1000

\* BackoffDelay with the exponent off by one, Math.pow(2, i + 1) * 1000
BackoffDelay_Doubled(i) == Pow2(i + 1) * 1000

\* const delay = Math.pow(2, i) * 1000
BackoffDelay(i) == Pow2(i) * 1000

\* what the activation did so far, in order
FetchEvent(i, outcome) == [ev |-> "fetch", a |-> i, b |-> outcome]
OnRetryEvent(n, max) == [ev |-> "onRetry", a |-> n, b |-> max]
SleepEvent(ms) == [ev |-> "sleep", a |-> ms, b |-> 0]

FRIdle ==
    [pc |-> "idle", i |-> 0, retries |-> 0, hasCb |-> FALSE, log |-> <<>>,
     status |-> 0, err |-> NoError, delay |-> 0, waited |-> 0]

\* the loop test `i < retries`, and the throw after the loop
FRLoopTest(f) ==
    IF f.i < f.retries
    THEN [f EXCEPT !.pc = "fetch"]
    ELSE [f EXCEPT !.pc = "thrown", !.err = MaxRetriesError]

\* the call: parameters bound, i = 0
FRCall(retriesArg, hasCb) ==
    FRLoopTest([FRIdle EXCEPT
        !.retries = IF retriesArg = Undefined THEN DefaultRetries ELSE retriesArg,
        !.hasCb = hasCb])

\* FRAttempt with the `if (i === retries - 1) throw err` guard dropped:
\* every failure is rethrown at once
FRAttempt_ThrowFirst(f, outcome) ==
    LET logged == [f EXCEPT !.log = Append(f.log, FetchEvent(f.i, outcome))]
        err == IF outcome = NetworkFailure THEN NetworkError ELSE HTTPError(outcome)
    IN  IF outcome # NetworkFailure /\ ResponseOk(outcome)
        THEN [logged EXCEPT !.pc = "returned", !.status = outcome]
        ELSE [logged EXCEPT !.pc = "thrown", !.err = err]

\* FRAttempt with the guard off by one (`i === retries`): the last failure
\* sleeps too and the loop runs out
FRAttempt_SleepAfterLast(f, outcome) ==
    LET logged == [f EXCEPT !.log = Append(f.log, FetchEvent(f.i, outcome))]
        delay == BackoffDelay(f.i)
        called == IF f.hasCb
                  THEN Append(logged.log, OnRetryEvent(f.i + 1, f.retries))
                  ELSE logged.log
    IN  IF outcome # NetworkFailure /\ ResponseOk(outcome)
        THEN [logged EXCEPT !.pc = "returned", !.status = outcome]
        ELSE [logged EXCEPT !.pc = "sleep", !.delay = delay,
                            !.log = Append(called, SleepEvent(delay))]

\* FRAttempt reporting the 0-based loop index to onRetry
FRAttempt_ZeroBasedCb(f, outcome) ==
    LET logged == [f EXCEPT !.log = Append(f.log, FetchEvent(f.i, outcome))]
        err == IF outcome = NetworkFailure THEN NetworkError ELSE HTTPError(outcome)
        delay == BackoffDelay(f.i)
        called == IF f.hasCb
                  THEN Append(logged.log, OnRetryEvent(f.i, f.retries))
                  ELSE logged.log
    IN  IF outcome # NetworkFailure /\ ResponseOk(outcome)
        THEN [logged EXCEPT !.pc = "returned", !.status = outcome]
        ELSE IF f.i = f.retries - 1
        THEN [logged EXCEPT !.pc = "thrown", !.err = err]
        ELSE [logged EXCEPT !.pc = "sleep", !.delay = delay,
                            !.log = Append(called, SleepEvent(delay))]

\* one iteration of the loop body, from `await fetch` settling with `outcome`
\* up to the return, the throw or the start of the sleep
FRAttempt(f, outcome) ==
    LET logged == [f EXCEPT !.log = Append(f.log, FetchEvent(f.i, outcome))]
        err == IF outcome = NetworkFailure THEN NetworkError ELSE HTTPError(outcome)
        delay == BackoffDelay(f.i)
        called == IF f.hasCb
                  THEN Append(logged.log, OnRetryEvent(f.i + 1, f.retries))
                  ELSE logged.log
    IN  IF outcome # NetworkFailure /\ ResponseOk(outcome)
        THEN [logged EXCEPT !.pc = "returned", !.status = outcome]
        ELSE IF f.i = f.retries - 1
        THEN [logged EXCEPT !.pc = "thrown", !.err = err]
        ELSE [logged EXCEPT !.pc = "sleep", !.delay = delay,
                            !.log = Append(called, SleepEvent(delay))]

\* `await sleep(delay)` resolves; i++ and the loop test
FRWake(f) ==
    FRLoopTest([f EXCEPT !.i = f.i + 1, !.waited = f.waited + f.delay, !.delay = 0])

FRDone(f) == f.pc \in {"returned", "thrown"}

(***************************************************************************)
(* Strings and their conversions.  A string is the sequence of its         *)
(* characters; "" is the empty sequence.                                   *)
(***************************************************************************)
\* the value of a comparison-only NaN: every number the model computes is >= 0
\* and NaN > 0 is false
NaN == -1

\* JSON null, where a number is expected
Null == -2

DecDigits == <<"0", "1", "2", "3", "4", "5", "6", "7", "8", "9">>
HexLower == DecDigits \o <<"a", "b", "c", "d", "e", "f">>
HexUpper == DecDigits \o <<"A", "B", "C", "D", "E", "F">>

IsHexDigit(c) == \E k \in 1 .. 16 : HexLower[k] = c \/ HexUpper[k] = c
HexValue(c) == (CHOOSE k \in 1 .. 16 : HexLower[k] = c \/ HexUpper[k] = c) - 1
IsDecDigit(c) == \E k \in 1 .. 10 : DecDigits[k] = c

HasHexPrefix(s) == Len(s) >= 2 /\ s[1] = "0" /\ s[2] \in {"x", "X"}

\* the value of the digits s[1..n] in the given radix
RECURSIVE DigitsValue(_, _, _)
DigitsValue(s, n, radix) ==
    IF n = 0 THEN 0 ELSE DigitsValue(s, n - 1, radix) * radix + HexValue(s[n])

\* the length of the longest prefix of s made of hex digits
RECURSIVE HexPrefixLen(_)
HexPrefixLen(s) ==
    IF s = <<>> \/ ~IsHexDigit(s[1]) THEN 0 ELSE 1 + HexPrefixLen(Tail(s))

\* parseInt(s, 16): an optional 0x prefix, then the longest run of hex digits;
\* NaN when there is none.  (The result is a double; rounding keeps it > 0.)
ParseInt16(s) ==
    LET body == IF HasHexPrefix(s) THEN SubSeq(s, 3, Len(s)) ELSE s
        n == HexPrefixLen(body)
    IN  IF n = 0 THEN NaN ELSE DigitsValue(body, n, 16)

\* Number(s) of a string: "" is 0, a 0x literal or a run of decimal digits is
\* its value, anything else NaN
NumberOfString(s) ==
    IF s = <<>> THEN 0
    ELSE IF HasHexPrefix(s)
    THEN LET body == SubSeq(s, 3, Len(s))
         IN  IF body # <<>> /\ \A k \in 1 .. Len(body) : IsHexDigit(body[k])
             THEN DigitsValue(body, Len(body), 16) ELSE NaN
    ELSE IF \A k \in 1 .. Len(s) : IsDecDigit(s[k])
    THEN DigitsValue(s, Len(s), 10) ELSE NaN

\* the letters symbols are written with, in alphabetical order, and their case
Letters == <<"a", "b", "c", "d", "e", "f", "g", "h", "i", "j", "k", "l", "m",
             "n", "o", "p", "q", "r", "s", "t", "u", "v", "w", "x", "y", "z">>
Capitals == <<"A", "B", "C", "D", "E", "F", "G", "H", "I", "J", "K", "L", "M",
              "N", "O", "P", "Q", "R", "S", "T", "U", "V", "W", "X", "Y", "Z">>
LetterRank(c) == CHOOSE k \in 1 .. Len(Letters) : Letters[k] = c \/ Capitals[k] = c
IsCapital(c) == \E k \in 1 .. Len(Capitals) : Capitals[k] = c

\* the first of the positions `at`, 0 when there is none
FirstDifference(at) ==
    IF at = {} THEN 0 ELSE CHOOSE k \in at : \A m \in at : k <= m

\* a.localeCompare(b) in the default collation: letters first, case ignored
\* (a prefix sorts first); between strings equal up to case, lower case first
LocaleCompare(a, b) ==
    LET n == IF Len(a) < Len(b) THEN Len(a) ELSE Len(b)
        p == FirstDifference({k \in 1 .. n : LetterRank(a[k]) # LetterRank(b[k])})
        t == FirstDifference({k \in 1 .. n : IsCapital(a[k]) # IsCapital(b[k])})
    IN  IF p # 0 THEN (IF LetterRank(a[p]) < LetterRank(b[p]) THEN -1 ELSE 1)
        ELSE IF Len(a) # Len(b) THEN (IF Len(a) < Len(b) THEN -1 ELSE 1)
        ELSE IF t # 0 THEN (IF IsCapital(b[t]) THEN -1 ELSE 1)
        ELSE 0

\* Array.prototype.sort with a comparator, cmp[j][k] being its value on the
\* elements at j and k: a stable sort.  An element's place is the number of
\* elements the comparator puts before it, ties in the original order
SortWith(list, cmp) ==
    LET n == Len(list)
        Before(j, k) ==
            \/ cmp[j][k] < 0
            \/ cmp[j][k] = 0 /\ cmp[k][j] = 0 /\ j < k
        Place(k) == Cardinality({j \in 1 .. n : Before(j, k)}) + 1
    IN  [p \in 1 .. n |-> list[CHOOSE k \in 1 .. n : Place(k) = p]]

\* tokens.sort((a, b) => a.symbol.localeCompare(b.symbol))
SortBySymbol(tokens) ==
    SortWith(tokens,
             [j \in 1 .. Len(tokens) |->
                [k \in 1 .. Len(tokens) |->
                    LocaleCompare(tokens[j].symbol, tokens[k].symbol)]])

\* the sequences of at most n distinct elements of S
InjSeqs(S, n) ==
    UNION {{q \in [1 .. k -> S] : \A i, j \in 1 .. k : i # j => q[i] # q[j]} :
           k \in 0 .. n}

\* symbol || "UNKNOWN"
UNKNOWN == <<"U", "N", "K", "N", "O", "W", "N">>
SymbolOrUnknown(symbol) == IF symbol = <<>> THEN UNKNOWN ELSE symbol

(***************************************************************************)
(* GET /api/tokens/{address} (route.ts).  A Token is                       *)
(* [contractAddress, symbol, balance]; name and balanceFormatted, display  *)
(* strings no decision reads, are left out.                                *)
(***************************************************************************)
\* most edges in a Zapper response, most tokens in one Alchemy page and in
\* all pages together
MaxEdges == 2
MaxPageTokens == 1
MaxAlchemyTokens == 2

\* the edge nodes Zapper answers with: balance is the formatted amount (a
\* number, here in hundredths), balanceRaw the integer amount as a string;
\* the last one is USDC, a token of the component's priority list
ZapperNodes ==
    { [tokenAddress |-> "0xaa", symbol |-> <<"b">>, balance |-> 150,
       balanceRaw |-> <<"1", "5", "0", "0">>],
      [tokenAddress |-> "0xbb", symbol |-> <<"A">>, balance |-> 0,
       balanceRaw |-> <<"5">>],
      [tokenAddress |-> "0xcc", symbol |-> <<"a">>, balance |-> 0,
       balanceRaw |-> <<"0">>],
      [tokenAddress |-> "0xdd", symbol |-> <<>>, balance |-> 20,
       balanceRaw |-> <<"2", "0">>],
      [tokenAddress |-> "0x833589fcd6edb6e08f4c7c32d4f71b54bda02913",
       symbol |-> <<"U", "S", "D", "C">>, balance |-> 7, balanceRaw |-> <<"7">>] }

\* the bodies of a 2xx Zapper response
ZapperBodies ==
    {[kind |-> k, edges |-> <<>>] : k \in {"errors", "noPortfolio", "noEdges"}}
    \cup {[kind |-> "edges", edges |-> e] : e \in InjSeqs(ZapperNodes, MaxEdges)}

\* new Error(`Zapper API Error: ...`), new Error("No portfolio data returned from Zapper")
ZapperError(kind) ==
    [msg |-> IF kind = "errors" THEN "Zapper API Error"
             ELSE "No portfolio data returned from Zapper",
     status |-> 0]

\* fetchZapperTokens past the fetch with the `||` of the balance test an `&&`
ZapperProcess_BothPositive(body) ==
    LET Keep(node) == node.balance > 0 /\ NumberOfString(node.balanceRaw) > 0
        Map(node) == [contractAddress |-> node.tokenAddress,
                      symbol |-> SymbolOrUnknown(node.symbol),
                      balance |-> node.balanceRaw]
        kept == SelectSeq(body.edges, Keep)
    IN  IF body.kind \in {"errors", "noPortfolio"}
        THEN [threw |-> TRUE, tokens |-> <<>>, err |-> ZapperError(body.kind)]
        ELSE [threw |-> FALSE, tokens |-> [k \in 1 .. Len(kept) |-> Map(kept[k])],
              err |-> NoError]

\* fetchZapperTokens past the fetch with the zero-balance test dropped
ZapperProcess_NoFilter(body) ==
    LET Map(node) == [contractAddress |-> node.tokenAddress,
                      symbol |-> SymbolOrUnknown(node.symbol),
                      balance |-> node.balanceRaw]
    IN  IF body.kind \in {"errors", "noPortfolio"}
        THEN [threw |-> TRUE, tokens |-> <<>>, err |-> ZapperError(body.kind)]
        ELSE [threw |-> FALSE, err |-> NoError,
              tokens |-> [k \in 1 .. Len(body.edges) |-> Map(body.edges[k])]]

\* fetchZapperTokens past the fetch: response.json() gave `body`
ZapperProcess(body) ==
    LET Keep(node) == node.balance > 0 \/ NumberOfString(node.balanceRaw) > 0
        Map(node) == [contractAddress |-> node.tokenAddress,
                      symbol |-> SymbolOrUnknown(node.symbol),
                      balance |-> node.balanceRaw]
        kept == SelectSeq(body.edges, Keep)
    IN  IF body.kind \in {"errors", "noPortfolio"}
        THEN [threw |-> TRUE, tokens |-> <<>>, err |-> ZapperError(body.kind)]
        ELSE [threw |-> FALSE, tokens |-> [k \in 1 .. Len(kept) |-> Map(kept[k])],
              err |-> NoError]

\* the tokens the Alchemy portfolio endpoint answers with; tokenAddress "" is
\* the null of the native currency's entry
AlchemyTokens ==
    { [tokenAddress |-> "0xaa", tokenBalance |-> <<"0", "x", "1", "f">>,
       decimals |-> 18, symbol |-> <<"B">>],
      [tokenAddress |-> "", tokenBalance |-> <<"0", "x", "1", "0">>,
       decimals |-> 18, symbol |-> <<"a">>],
      [tokenAddress |-> "0xbb", tokenBalance |-> <<"0", "x", "0", "0">>,
       decimals |-> 6, symbol |-> <<"b">>],
      [tokenAddress |-> "0xcc", tokenBalance |-> <<"0", "x", "2">>,
       decimals |-> Null, symbol |-> <<>>] }

\* continuation keys; "" is none
PageKeys == {"k1", "k2"}

\* const maxPages = 10
maxPages == 10

\* the bodies of a 2xx page response, given what the earlier pages held
AlchemyBodies(allTokens) ==
    LET room == MaxAlchemyTokens - Len(allTokens)
        most == IF room < MaxPageTokens THEN room ELSE MaxPageTokens
        fresh == {t \in AlchemyTokens : \A k \in 1 .. Len(allTokens) : allTokens[k] # t}
    IN  {[error |-> TRUE, tokens |-> <<>>, pageKey |-> ""]}
        \cup {[error |-> FALSE, tokens |-> ts, pageKey |-> key] :
                ts \in InjSeqs(fresh, most), key \in PageKeys \cup {""}}

\* AlchemyProcess with the zero-balance test dropped
AlchemyProcess_NoFilter(allTokens) ==
    LET Keep(token) == token.tokenAddress # "" /\ token.decimals # Null
        Map(token) == [contractAddress |-> token.tokenAddress,
                       symbol |-> SymbolOrUnknown(token.symbol),
                       balance |-> token.tokenBalance]
        kept == SelectSeq(allTokens, Keep)
    IN  [k \in 1 .. Len(kept) |-> Map(kept[k])]

\* AlchemyProcess storing the parsed number instead of the string
AlchemyProcess_ParsedBalance(allTokens) ==
    LET Keep(token) ==
            /\ ParseInt16(token.tokenBalance) > 0
            /\ token.tokenAddress # ""
            /\ token.decimals # Null
        Map(token) == [contractAddress |-> token.tokenAddress,
                       symbol |-> SymbolOrUnknown(token.symbol),
                       balance |-> <<"0", "x", "1">>]
        kept == SelectSeq(allTokens, Keep)
    IN  [k \in 1 .. Len(kept) |-> Map(kept[k])]

\* fetchAlchemyPortfolioTokens past the page loop: filter and map
AlchemyProcess(allTokens) ==
    LET Keep(token) ==
            /\ ParseInt16(token.tokenBalance) > 0
            /\ token.tokenAddress # ""
            /\ token.decimals # Null
        Map(token) == [contractAddress |-> token.tokenAddress,
                       symbol |-> SymbolOrUnknown(token.symbol),
                       balance |-> token.tokenBalance]
        kept == SelectSeq(allTokens, Keep)
    IN  [k \in 1 .. Len(kept) |-> Map(kept[k])]

NoResponse == [status |-> 0, error |-> "", tokens |-> <<>>, source |-> ""]
ErrorResponse(status, error) ==
    [status |-> status, error |-> error, tokens |-> <<>>, source |-> ""]
TokensResponse(tokens, source) ==
    [status |-> 200, error |-> "", tokens |-> SortBySymbol(tokens), source |-> source]

RouteOff ==
    [pc |-> "off", address |-> "", zapperApiKey |-> FALSE, alchemyApiKey |-> FALSE,
     allTokens |-> <<>>, queried |-> <<>>, zapper |-> "none", zapperError |-> NoError,
     zapperEdges |-> <<>>,
     alchemy |-> "none", rawTokens |-> <<>>, pageKey |-> "", pageCount |-> 0,
     sentKey |-> "", pageRequests |-> 0,
     response |-> NoResponse]

\* the request as it arrives: the path parameter and the environment's keys
RouteRequest(address, zapperApiKey, alchemyApiKey) ==
    [RouteOff EXCEPT !.pc = "start", !.address = address,
                     !.zapperApiKey = zapperApiKey, !.alchemyApiKey = alchemyApiKey]

Respond(r, response) == [r EXCEPT !.pc = "done", !.response = response]

\* GET, step 3 and the final return: no key at all is a 500
RouteStep3_EmptyOnNoKeys(r) ==
    Respond(r, TokensResponse(r.allTokens, "none"))

RouteStep3(r) ==
    IF ~r.zapperApiKey /\ ~r.alchemyApiKey
    THEN Respond(r, ErrorResponse(500, "No API keys configured"))
    ELSE Respond(r, TokensResponse(r.allTokens, "none"))

\* GET, step 2: `if (alchemyApiKey)` starts the portfolio fetch's first page
RouteStep2_SkipAlchemy(r) ==
    <<RouteStep3(r), FRIdle>>

RouteStep2_AlwaysAlchemy(r) ==
    <<[r EXCEPT !.pc = "alchemy", !.queried = Append(r.queried, "alchemy-portfolio"),
                !.rawTokens = <<>>, !.pageKey = "", !.pageCount = 0,
                !.sentKey = "", !.pageRequests = 1],
      FRCall(Undefined, FALSE)>>

RouteStep2(r) ==
    IF r.alchemyApiKey
    THEN <<[r EXCEPT !.pc = "alchemy",
                     !.queried = Append(r.queried, "alchemy-portfolio"),
                     !.rawTokens = <<>>, !.pageKey = "", !.pageCount = 0,
                !.sentKey = "", !.pageRequests = 1],
           FRCall(Undefined, FALSE)>>
    ELSE <<RouteStep3(r), FRIdle>>

\* GET up to its first await: the address check, then step 1 `if (zapperApiKey)`
RouteBegin_AlchemyFirst(r) ==
    IF r.address = ""
    THEN <<Respond(r, ErrorResponse(400, "Address is required")), FRIdle>>
    ELSE IF r.alchemyApiKey
    THEN RouteStep2(r)
    ELSE IF r.zapperApiKey
    THEN <<[r EXCEPT !.pc = "zapper", !.queried = Append(r.queried, "zapper")],
           FRCall(Undefined, FALSE)>>
    ELSE RouteStep2(r)

RouteBegin(r) ==
    IF r.address = ""
    THEN <<Respond(r, ErrorResponse(400, "Address is required")), FRIdle>>
    ELSE IF r.zapperApiKey
    THEN <<[r EXCEPT !.pc = "zapper", !.queried = Append(r.queried, "zapper")],
           FRCall(Undefined, FALSE)>>
    ELSE RouteStep2(r)

\* fetchZapperTokens returned or threw, back in GET's step 1
RouteAfterZapper_KeepOnEmpty(r, result) ==
    IF result.threw
    THEN RouteStep2([r EXCEPT !.zapper = "threw", !.zapperError = result.err])
    ELSE <<Respond([r EXCEPT !.zapper = "returned", !.allTokens = result.tokens],
                   TokensResponse(result.tokens, "zapper")), FRIdle>>

RouteAfterZapper_Rethrow(r, result) ==
    IF result.threw
    THEN <<Respond([r EXCEPT !.zapper = "threw", !.zapperError = result.err],
                   ErrorResponse(500, "Failed to fetch tokens")), FRIdle>>
    ELSE IF Len(result.tokens) > 0
    THEN <<Respond([r EXCEPT !.zapper = "returned", !.allTokens = result.tokens],
                   TokensResponse(result.tokens, "zapper")), FRIdle>>
    ELSE RouteStep2([r EXCEPT !.zapper = "returned", !.allTokens = result.tokens])

RouteAfterZapper(r, result) ==
    IF result.threw
    THEN RouteStep2([r EXCEPT !.zapper = "threw", !.zapperError = result.err])
    ELSE IF Len(result.tokens) > 0
    THEN <<Respond([r EXCEPT !.zapper = "returned", !.allTokens = result.tokens],
                   TokensResponse(result.tokens, "zapper")), FRIdle>>
    ELSE RouteStep2([r EXCEPT !.zapper = "returned", !.allTokens = result.tokens])

\* fetchAlchemyPortfolioTokens returned or threw, back in GET's step 2
RouteAfterAlchemy(r, result) ==
    IF result.threw
    THEN RouteStep3([r EXCEPT !.alchemy = "threw"])
    ELSE IF Len(result.tokens) > 0
    THEN Respond([r EXCEPT !.alchemy = "returned", !.allTokens = result.tokens],
                 TokensResponse(result.tokens, "alchemy-portfolio"))
    ELSE RouteStep3([r EXCEPT !.alchemy = "returned", !.allTokens = result.tokens])

\* the request of the next page: `...(pageKey && { pageKey })` in its body
RoutePageRequest(r) ==
    [r EXCEPT !.sentKey = r.pageKey, !.pageRequests = r.pageRequests + 1]

\* RouteAlchemyPage without the `pageCount >= maxPages` break
RouteAlchemyPage_NoCap(r, body) ==
    LET got == [r EXCEPT !.rawTokens = r.rawTokens \o body.tokens,
                         !.pageKey = body.pageKey,
                         !.pageCount = r.pageCount + 1]
    IN  IF body.error
        THEN <<RouteAfterAlchemy(r, [threw |-> TRUE, tokens |-> <<>>]), FRIdle>>
        ELSE IF got.pageKey # ""
        THEN <<RoutePageRequest(got), FRCall(Undefined, FALSE)>>
        ELSE <<RouteAfterAlchemy(got, [threw |-> FALSE,
                                       tokens |-> AlchemyProcess(got.rawTokens)]),
               FRIdle>>

\* one turn of the page loop, from response.json() giving `body` to the next
\* request or to the end of fetchAlchemyPortfolioTokens
RouteAlchemyPage(r, body) ==
    LET got == [r EXCEPT !.rawTokens = r.rawTokens \o body.tokens,
                         !.pageKey = body.pageKey,
                         !.pageCount = r.pageCount + 1]
    IN  IF body.error
        THEN <<RouteAfterAlchemy(r, [threw |-> TRUE, tokens |-> <<>>]), FRIdle>>
        ELSE IF got.pageCount < maxPages /\ got.pageKey # ""
        THEN <<RoutePageRequest(got), FRCall(Undefined, FALSE)>>
        ELSE <<RouteAfterAlchemy(got, [threw |-> FALSE,
                                       tokens |-> AlchemyProcess(got.rawTokens)]),
               FRIdle>>

(***************************************************************************)
(* The TokenBurner component of token-burner.tsx: its state and the two    *)
(* scans.  An address is [id, mixed]: the lower-case text and whether the  *)
(* text at hand is written in mixed (checksum) case.                       *)
(***************************************************************************)
\* most entries in a tokenBalances answer
MaxBalances == 2

Addr(id, mixed) == [id |-> id, mixed |-> mixed]

\* String.prototype.toLowerCase on an address
ToLowerCase(address) == [address EXCEPT !.mixed = FALSE]

USDC == "0x833589fcd6edb6e08f4c7c32d4f71b54bda02913"
DEGEN == "0x4ed4e862860bed51a9570b96d89af5e1b0efefed"
WETH == "0x4200000000000000000000000000000000000006"
ZORA == "0x1111111111166b7fe7bd91427724b487980afc69"
VIRTUALS == "0x44ff8620b8ca30902395a7bd3f2407e1a091bf73"
MORPHO == "0x58d97b57bb95320f9a05dc918aef65434969c2b2"
EURC == "0x1abaea1f7c830bd89acc67ec4af516284b1bc33c"
GHO == "0x40d16fc0246ad3160ccc09b8d0d3a2cd28ae6c2f"
cbETH == "0x2ae3f1ec7f1f5012cfeab0185bfc7aa3cf0dec22"
DAI == "0x50c5725949a6f0c72e6c4a641f24049a917db0cb"

\* BASE_PRIORITY_TOKENS, after .map(addr => addr.toLowerCase())
BASE_PRIORITY_TOKENS ==
    [k \in 1 .. 10 |->
        ToLowerCase(Addr(<<USDC, DEGEN, WETH, ZORA, VIRTUALS, MORPHO, EURC, GHO,
                           cbETH, DAI>>[k], TRUE))]

\* BASE_PRIORITY_TOKENS.includes(lowerAddress)
IsPriorityAddress(lowerAddress) ==
    \E k \in 1 .. Len(BASE_PRIORITY_TOKENS) : BASE_PRIORITY_TOKENS[k] = lowerAddress

\* TOKEN_METADATA_CACHE, keyed by lower-case address (names left out)
CachedIds == {USDC, DEGEN, WETH, ZORA, VIRTUALS, MORPHO, EURC, GHO, cbETH, DAI}
TOKEN_METADATA_CACHE ==
    [id \in CachedIds |->
        CASE id = USDC -> [symbol |-> <<"U", "S", "D", "C">>, decimals |-> 6]
          [] id = DEGEN -> [symbol |-> <<"D", "E", "G", "E", "N">>, decimals |-> 18]
          [] id = WETH -> [symbol |-> <<"W", "E", "T", "H">>, decimals |-> 18]
          [] id = ZORA -> [symbol |-> <<"Z", "O", "R", "A">>, decimals |-> 18]
          [] id = VIRTUALS ->
               [symbol |-> <<"V", "I", "R", "T", "U", "A", "L">>, decimals |-> 18]
          [] id = MORPHO ->
               [symbol |-> <<"M", "O", "R", "P", "H", "O">>, decimals |-> 18]
          [] id = EURC -> [symbol |-> <<"E", "U", "R", "C">>, decimals |-> 6]
          [] id = GHO -> [symbol |-> <<"G", "H", "O">>, decimals |-> 18]
          [] id = cbETH -> [symbol |-> <<"c", "b", "E", "T", "H">>, decimals |-> 18]
          [] OTHER -> [symbol |-> <<"D", "A", "I">>, decimals |-> 18]]

\* TOKEN_METADATA_CACHE[lowerAddress] is there
IsCached(lowerAddress) == ~lowerAddress.mixed /\ lowerAddress.id \in CachedIds

\* the entries of a tokenBalances answer: priority tokens (one in checksum
\* case), tokens outside the cache, with and without a balance
PriorityEntries ==
    { [contractAddress |-> Addr(USDC, FALSE), tokenBalance |-> <<"0", "x", "1", "f">>],
      [contractAddress |-> Addr(DEGEN, TRUE), tokenBalance |-> <<"0", "x", "0", "2">>],
      [contractAddress |-> Addr(WETH, FALSE), tokenBalance |-> <<"0", "x", "0", "0">>] }
OtherEntries ==
    { [contractAddress |-> Addr("0xaa", FALSE), tokenBalance |-> <<"0", "x", "1", "0">>],
      [contractAddress |-> Addr("0xbb", FALSE), tokenBalance |-> <<"0", "x", "0">>] }

\* the bodies of a 2xx alchemy_getTokenBalances answer: a JSON-RPC error, no
\* result, or the balances of the contracts asked for
BalancesBodies(kind) ==
    {[shape |-> k, tokenBalances |-> <<>>] : k \in {"error", "noResult"}}
    \cup {[shape |-> "result", tokenBalances |-> b] :
            b \in InjSeqs(IF kind = "priority" THEN PriorityEntries
                          ELSE PriorityEntries \cup OtherEntries, MaxBalances)}

\* the bodies of a 2xx alchemy_getTokenMetadata answer: result null, a result
\* without symbol and decimals, a full result
MetadataBodies ==
    { [result |-> FALSE, symbol |-> <<>>, decimals |-> 0],
      [result |-> TRUE, symbol |-> <<>>, decimals |-> 0],
      [result |-> TRUE, symbol |-> <<"a", "b">>, decimals |-> 6] }

\* fetchTokenMetadata, the cache hit: the Token with balance '0'
CachedMetadata(contractAddress) ==
    LET lowerAddress == ToLowerCase(contractAddress)
    IN  [contractAddress |-> contractAddress,
         symbol |-> TOKEN_METADATA_CACHE[lowerAddress.id].symbol,
         balance |-> <<"0">>,
         decimals |-> TOKEN_METADATA_CACHE[lowerAddress.id].decimals,
         isPriority |-> IsPriorityAddress(lowerAddress)]

\* fetchTokenMetadata, the answer of alchemy_getTokenMetadata: the Token with
\* balance '0'; only called on a body with a result
FetchedMetadata(contractAddress, body) ==
    [contractAddress |-> contractAddress,
     symbol |-> SymbolOrUnknown(body.symbol),
     balance |-> <<"0">>,
     decimals |-> IF body.decimals = 0 THEN 18 ELSE body.decimals,
     isPriority |-> IsPriorityAddress(ToLowerCase(contractAddress))]

\* PriorityThenSymbol without the two isPriority tests
PriorityThenSymbol_SymbolOnly(a, b) ==
    LocaleCompare(a.symbol, b.symbol)

\* the comparator of fetchAllTokens' sort: priority first, then by symbol
PriorityThenSymbol(a, b) ==
    IF a.isPriority /\ ~b.isPriority THEN -1
    ELSE IF ~a.isPriority /\ b.isPriority THEN 1
    ELSE LocaleCompare(a.symbol, b.symbol)

\* tokensWithMetadata.sort(...) of fetchAllTokens
SortByPriorityThenSymbol(tokens) ==
    SortWith(tokens,
             [j \in 1 .. Len(tokens) |->
                [k \in 1 .. Len(tokens) |-> PriorityThenSymbol(tokens[j], tokens[k])]])

IdleLoading == [phase |-> "idle", progress |-> 0, total |-> 0, retryCount |-> 0]
NoUiError == [kind |-> "", cause |-> NoError]
UiError(kind, cause) == [kind |-> kind, cause |-> cause]

\* the component before a wallet is connected; alchemyApiKey: is
\* NEXT_PUBLIC_ALCHEMY_API_KEY set
BurnerOff ==
    [mounted |-> FALSE, address |-> "", alchemyApiKey |-> FALSE, tokens |-> <<>>,
     selectedTokens |-> {}, loadingState |-> IdleLoading, error |-> NoUiError,
     allTokensLoaded |-> FALSE]
BurnerMounted(alchemyApiKey) ==
    [BurnerOff EXCEPT !.mounted = TRUE, !.alchemyApiKey = alchemyApiKey]

ScanOff ==
    [pc |-> "off", kind |-> "", address |-> "", fr |-> FRIdle, answered |-> <<>>,
     tokenBalances |-> <<>>, next |-> 1, tokensWithMetadata |-> <<>>, processed |-> 0, noMetadata |-> {}]

\* the onRetry closures: setLoadingState(prev => ({...prev, retryCount, ...}))
\* when the attempt invoked the callback
ApplyOnRetry(state, before, after) ==
    IF Len(after.log) > Len(before.log) /\ after.pc = "sleep" /\ after.hasCb
    THEN [state EXCEPT !.loadingState.retryCount = before.i + 1]
    ELSE state

\* fetchPriorityTokens / fetchAllTokens up to the first await
ScanBegin(state, kind) ==
    IF state.address = "" \/ ~state.alchemyApiKey
    THEN <<IF ~state.alchemyApiKey /\ kind = "priority"
           THEN [state EXCEPT !.error = UiError("config", NoError)]
           ELSE state,
           ScanOff>>
    ELSE <<[state EXCEPT
               !.loadingState =
                   [phase |-> kind, progress |-> 0,
                    total |-> IF kind = "priority" THEN Len(BASE_PRIORITY_TOKENS)
                              ELSE 100,
                    retryCount |-> 0],
               !.error = NoUiError],
           [ScanOff EXCEPT !.pc = "balances", !.kind = kind,
                           !.address = state.address,
                           !.fr = FRCall(DefaultRetries, TRUE)]>>

\* the catch block of either scan
ScanCatch(state, a, cause) ==
    <<[state EXCEPT !.error = UiError(a.kind, cause), !.loadingState = IdleLoading],
      [a EXCEPT !.pc = "failed", !.fr = FRIdle]>>

\* ScanFinish merging the full scan's result into the list on the screen
ScanFinish_Merge(state, a) ==
    LET kept == SelectSeq(state.tokens,
                    LAMBDA token : \A k \in 1 .. Len(a.tokensWithMetadata) :
                        ToLowerCase(a.tokensWithMetadata[k].contractAddress)
                            # ToLowerCase(token.contractAddress))
    IN  <<[state EXCEPT
              !.tokens = IF a.kind = "priority"
                         THEN SortBySymbol(a.tokensWithMetadata)
                         ELSE SortByPriorityThenSymbol(a.tokensWithMetadata \o kept),
              !.allTokensLoaded = IF a.kind = "all" THEN TRUE ELSE state.allTokensLoaded,
              !.loadingState = IdleLoading],
          [a EXCEPT !.pc = "done", !.fr = FRIdle]>>

\* past the loop: sort, setTokens, (setAllTokensLoaded,) loading idle
ScanFinish(state, a) ==
    <<[state EXCEPT
          !.tokens = IF a.kind = "priority"
                     THEN SortBySymbol(a.tokensWithMetadata)
                     ELSE SortByPriorityThenSymbol(a.tokensWithMetadata),
          !.allTokensLoaded = IF a.kind = "all" THEN TRUE ELSE state.allTokensLoaded,
          !.loadingState = IdleLoading],
      [a EXCEPT !.pc = "done", !.fr = FRIdle]>>

\* the end of one loop iteration: processed++, the progress update, and the
\* code after the loop when that was the last entry
ScanIterationEnd(state, a) ==
    LET counted == [a EXCEPT !.processed = a.processed + 1, !.next = a.next + 1,
                             !.fr = FRIdle, !.pc = "loop"]
        shown == [state EXCEPT !.loadingState.progress = counted.processed]
    IN  IF counted.next > Len(counted.tokenBalances)
        THEN ScanFinish(shown, counted)
        ELSE <<shown, counted>>

\* ScanKeep without `metadata.balance = token.tokenBalance`: the '0' stays
ScanKeep_ZeroBalance(a, token, metadata) ==
    [a EXCEPT !.tokensWithMetadata = Append(a.tokensWithMetadata, metadata)]

\* `if (metadata) { metadata.balance = token.tokenBalance; push }`
ScanKeep(a, token, metadata) ==
    [a EXCEPT !.tokensWithMetadata =
                 Append(a.tokensWithMetadata,
                        [metadata EXCEPT !.balance = token.tokenBalance])]

\* a null metadata leaves the token out
ScanDrop(a, token) ==
    [a EXCEPT !.noMetadata = a.noMetadata \cup {token.contractAddress}]

\* the balance test of the scans, with parseInt(token.tokenBalance, 16) >= 0
HasBalance_ZeroToo(token) == ParseInt16(token.tokenBalance) >= 0

\* parseInt(token.tokenBalance, 16) > 0
HasBalance(token) == ParseInt16(token.tokenBalance) > 0

\* the tokenBalances the loop runs over: fetchAllTokens filters first
ScanList(kind, tokenBalances) ==
    IF kind = "all" THEN SelectSeq(tokenBalances, HasBalance) ELSE tokenBalances

\* response.json() of the balances request gave `body`: up to the loop
ScanBalances(state, a, body) ==
    LET list == ScanList(a.kind, body.tokenBalances)
        looping == [a EXCEPT !.tokenBalances = list, !.answered = body.tokenBalances,
                             !.pc = "loop", !.fr = FRIdle]
        totalled == IF a.kind = "all"
                    THEN [state EXCEPT !.loadingState.total = Len(list)]
                    ELSE state
    IN  IF body.shape = "error"
        THEN ScanCatch(state, a, [msg |-> "API Error", status |-> 0])
        ELSE IF list = <<>>
        THEN ScanFinish(totalled, looping)
        ELSE <<totalled, looping>>

\* one loop iteration up to its await: the balance test and fetchTokenMetadata
\* up to its cache hit or its fetchWithRetry
ScanIteration(state, a) ==
    LET token == a.tokenBalances[a.next]
    IN  IF ~HasBalance(token)
        THEN ScanIterationEnd(state, a)
        ELSE IF IsCached(ToLowerCase(token.contractAddress))
        THEN ScanIterationEnd(state, ScanKeep(a, token,
                                              CachedMetadata(token.contractAddress)))
        ELSE <<state, [a EXCEPT !.pc = "metadata",
                                !.fr = FRCall(DefaultRetries, TRUE)]>>

\* fetchTokenMetadata past its fetch: the metadata or null, then the rest of
\* the iteration
ScanMetadata(state, a, threw, body) ==
    LET token == a.tokenBalances[a.next]
    IN  IF ~threw /\ body.result
        THEN ScanIterationEnd(state, ScanKeep(a, token,
                                   FetchedMetadata(token.contractAddress, body)))
        ELSE ScanIterationEnd(state, ScanDrop(a, token))

(***************************************************************************)
(* The burn call builders (lib/batched-transactions.ts and its batch       *)
(* variant) and handleBurnTokens of the batch component                    *)
(* (batch-transfer-example.tsx).  An address is the sequence of its        *)
(* characters, a bigint is its value, an absent argument is <<>>.          *)
(***************************************************************************)
\* most transfers handed to a builder, most tokens the batch component
\* lists, most sendCalls of one session
MaxTransfers == 2
MaxBatchTokens == 2
MaxSends == 2

\* "0x000000000000000000000000000000000000dEaD"
BURN_ADDRESS == <<"0", "x">> \o [k \in 1 .. 36 |-> "0"] \o <<"d", "E", "a", "D">>

\* the SyntaxError of BigInt(s) on a string that is no integer literal
SyntaxError == -3

\* BigInt(s) of a string: "" is 0n, a 0x literal or a run of decimal digits
\* is its value, anything else throws
BigIntOfString(s) ==
    IF s = <<>> THEN 0
    ELSE IF HasHexPrefix(s)
    THEN IF Len(s) > 2 /\ \A k \in 3 .. Len(s) : IsHexDigit(s[k])
         THEN DigitsValue(SubSeq(s, 3, Len(s)), Len(s) - 2, 16)
         ELSE SyntaxError
    ELSE IF \A k \in 1 .. Len(s) : IsDecDigit(s[k])
    THEN DigitsValue(s, Len(s), 10)
    ELSE SyntaxError

\* an address as the ABI encoding holds it: the values of its hex digits,
\* the case of the text gone
AddressWord(address) ==
    [k \in 1 .. Len(address) - 2 |-> HexValue(address[k + 2])]

\* the 4-byte selectors of erc20Abi's transfer and approve
Selector(functionName) ==
    CASE functionName = "transfer" -> "0xa9059cbb"
      [] functionName = "approve" -> "0x095ea7b3"
      [] OTHER -> "0x"

\* encodeFunctionData({abi: erc20Abi, functionName, args: [address, amount]})
EncodeFunctionData(functionName, args) ==
    [selector |-> Selector(functionName),
     args |-> <<AddressWord(args[1]), args[2]>>]

\* createTokenBurnSteps(tokenTransfers, burnAddress = BURN_ADDRESS); a step
\* has no value
createTokenBurnSteps(tokenTransfers, burnAddress) ==
    LET to == IF burnAddress = <<>> THEN BURN_ADDRESS ELSE burnAddress
    IN  [index \in 1 .. Len(tokenTransfers) |->
            [name |-> <<"Burn",
                        IF tokenTransfers[index].tokenSymbol = <<>> THEN <<"token">>
                        ELSE tokenTransfers[index].tokenSymbol,
                        index>>,
             contractAddress |-> tokenTransfers[index].tokenAddress,
             functionName |-> "transfer",
             args |-> <<to, tokenTransfers[index].amount>>,
             value |-> Undefined]]

\* transactionStepsToBatchCalls sending each call to the step's first
\* argument instead of its contract
transactionStepsToBatchCalls_ToRecipient(steps) ==
    [k \in 1 .. Len(steps) |->
        [to |-> steps[k].args[1],
         data |-> EncodeFunctionData(steps[k].functionName, steps[k].args),
         value |-> steps[k].value]]

\* transactionStepsToBatchCalls(steps)
transactionStepsToBatchCalls(steps) ==
    [k \in 1 .. Len(steps) |->
        [to |-> steps[k].contractAddress,
         data |-> EncodeFunctionData(steps[k].functionName, steps[k].args),
         value |-> steps[k].value]]

\* createTokenBurnBatchCalls(tokenTransfers, burnAddress = BURN_ADDRESS); a
\* call has no value
createTokenBurnBatchCalls(tokenTransfers, burnAddress) ==
    LET to == IF burnAddress = <<>> THEN BURN_ADDRESS ELSE burnAddress
    IN  [k \in 1 .. Len(tokenTransfers) |->
            [to |-> tokenTransfers[k].tokenAddress,
             data |-> EncodeFunctionData("transfer",
                                         <<to, tokenTransfers[k].amount>>),
             value |-> Undefined]]

\* the transfers a builder is handed, and an explicit burnAddress
Transfers ==
    { [tokenAddress |-> <<"0", "x", "A", "a">>, amount |-> 1500,
       tokenSymbol |-> <<"U", "S", "D", "C">>],
      [tokenAddress |-> <<"0", "x", "b", "b">>, amount |-> 31,
       tokenSymbol |-> <<>>],
      [tokenAddress |-> <<"0", "x", "c", "c">>, amount |-> 0,
       tokenSymbol |-> <<"Z">>] }
OtherBurnAddress == <<"0", "x", "0", "1">>

LibOff ==
    [pc |-> "off", fn |-> "", tokenTransfers |-> <<>>, burnAddress |-> <<>>,
     steps |-> <<>>, calls |-> <<>>]
LibCall(fn, tokenTransfers, burnAddress) ==
    [LibOff EXCEPT !.pc = "called", !.fn = fn, !.tokenTransfers = tokenTransfers,
                   !.burnAddress = burnAddress]

\* the tokens /api/tokens answers the batch component with: raw balances in
\* decimal (Zapper) and in hex (Alchemy)
BatchTokens ==
    { [contractAddress |-> <<"0", "x", "A", "a">>, symbol |-> <<"U", "S", "D", "C">>,
       balance |-> <<"1", "5", "0", "0">>, decimals |-> 6],
      [contractAddress |-> <<"0", "x", "b", "b">>, symbol |-> <<"a">>,
       balance |-> <<"0", "x", "1", "f">>, decimals |-> 2],
      [contractAddress |-> <<"0", "x", "c", "c">>, symbol |-> <<"B">>,
       balance |-> <<"5">>, decimals |-> 6] }

\* the wallet addresses a session of a component connects
Wallets == {"0xw1", "0xw2"}

\* most fetches of /api/tokens one session of the batch component starts
MaxFetches == 3

\* the batch component before it is rendered.  Of wagmi's hooks it holds
\* useSendCalls' isPending, data (callsId, 0 for none) and error, and
\* useWaitForCallsStatus' isLoading (isConfirming), data (callsStatus, "" for
\* none) and error.  fetches are the requests of /api/tokens in flight, by
\* address; tokensOf is the address the list was fetched for, failed whether
\* the request that settled last ended in the catch, listed and burned the
\* token list and the selected tokens of the last sendCalls
BatchOff ==
    [pc |-> "off", address |-> "", publicClient |-> FALSE, tokens |-> <<>>,
     tokensOf |-> "", selectedTokens |-> {}, phase |-> "idle", error |-> "",
     showConfirmation |-> FALSE, isPending |-> FALSE, callsId |-> 0,
     sendCallsError |-> FALSE, isConfirming |-> FALSE, callsStatus |-> "",
     callsStatusError |-> FALSE, fetches |-> <<>>, fetched |-> 0, failed |-> FALSE,
     listed |-> <<>>, burned |-> <<>>, calls |-> <<>>, sent |-> 0]
BatchMounted(publicClient) ==
    [BatchOff EXCEPT !.pc = "ready", !.publicClient = publicClient]

\* what /api/tokens answers: the fetch rejected, a non-OK response with an
\* error body, or a token list sorted by symbol
BatchResponses ==
    {[kind |-> k, tokens |-> <<>>] : k \in {"network", "notOk"}}
    \cup {[kind |-> "tokens", tokens |-> SortBySymbol(l)] :
            l \in InjSeqs(BatchTokens, MaxBatchTokens)}

\* fetchAllTokens of the batch component up to its await
BatchFetchAllTokens(b) ==
    IF b.address = "" THEN b
    ELSE [b EXCEPT !.phase = "all", !.error = "",
                   !.fetches = Append(b.fetches, b.address),
                   !.fetched = b.fetched + 1]

\* BatchFetchSettled with no word of a failure: the catch only logs
BatchFetchSettled_Silent(b, k, response) ==
    LET rest == SubSeq(b.fetches, 1, k - 1) \o SubSeq(b.fetches, k + 1, Len(b.fetches))
    IN  IF response.kind = "tokens"
        THEN [b EXCEPT !.tokens = response.tokens, !.tokensOf = b.fetches[k],
                       !.phase = "idle", !.fetches = rest, !.failed = FALSE]
        ELSE [b EXCEPT !.phase = "idle", !.fetches = rest, !.failed = TRUE]

\* BatchFetchSettled dropping the answer of a fetch started for another
\* address than the connected one
BatchFetchSettled_Cancelled(b, k, response) ==
    LET rest == SubSeq(b.fetches, 1, k - 1) \o SubSeq(b.fetches, k + 1, Len(b.fetches))
    IN  IF b.fetches[k] # b.address
        THEN [b EXCEPT !.fetches = rest]
        ELSE IF response.kind = "tokens"
        THEN [b EXCEPT !.tokens = response.tokens, !.tokensOf = b.fetches[k],
                       !.phase = "idle", !.fetches = rest, !.failed = FALSE]
        ELSE [b EXCEPT !.error = "Failed to fetch tokens", !.phase = "idle",
                       !.fetches = rest, !.failed = TRUE]

\* fetchAllTokens past its await, for the k-th request in flight: setTokens
\* and idle, or the catch's setError and idle
BatchFetchSettled(b, k, response) ==
    LET rest == SubSeq(b.fetches, 1, k - 1) \o SubSeq(b.fetches, k + 1, Len(b.fetches))
    IN  IF response.kind = "tokens"
        THEN [b EXCEPT !.tokens = response.tokens, !.tokensOf = b.fetches[k],
                       !.phase = "idle", !.fetches = rest, !.failed = FALSE]
        ELSE [b EXCEPT !.error = "Failed to fetch tokens", !.phase = "idle",
                       !.fetches = rest, !.failed = TRUE]

\* the effect on [isConnected, address, fetchAllTokens]
BatchAddressEffect(b, address) ==
    BatchFetchAllTokens([b EXCEPT !.address = address])

\* what is rendered, the wallet connected on Base: the token list with its
\* checkboxes, and in the confirmation the burn buttons, the wallet's error,
\* the success block and the failure block with "Try Again"
ShowsTokenList(b) ==
    b.address # "" /\ ~b.showConfirmation /\ b.phase = "idle" /\ b.tokens # <<>>
BurnEnabled_WhilePending(b) == b.address # "" /\ b.showConfirmation
BurnEnabled(b) ==
    b.address # "" /\ b.showConfirmation /\ ~(b.isPending \/ b.isConfirming)
ShowsCallsError(b) ==
    b.address # "" /\ b.showConfirmation /\ (b.sendCallsError \/ b.callsStatusError)
ShowsSuccess(b) ==
    b.address # "" /\ b.showConfirmation /\ b.callsStatus = "success"
ShowsFailure(b) ==
    b.address # "" /\ b.showConfirmation /\ b.callsStatus = "failure"

\* selectedTokensList without the filter: every listed token
SelectedTokensList_Unfiltered(b) == b.tokens

\* selectedTokensList: tokens.filter(token => selectedTokens.has(...))
SelectedTokensList(b) ==
    SelectSeq(b.tokens, LAMBDA token : token.contractAddress \in b.selectedTokens)

\* handleTokenSelect without its delete branch
HandleTokenSelect_AddOnly(b, contractAddress, checked) ==
    [b EXCEPT !.selectedTokens = IF checked THEN @ \cup {contractAddress} ELSE @]

\* handleTokenSelect(contractAddress, checked)
HandleTokenSelect(b, contractAddress, checked) ==
    [b EXCEPT !.selectedTokens = IF checked THEN @ \cup {contractAddress}
                                 ELSE @ \ {contractAddress}]

\* most handleTokenSelect calls made in a row
MaxSelectCalls == 2

\* the contract addresses a checkbox can name
SelectableAddresses == {token.contractAddress : token \in BatchTokens}

\* a selection set with the handleTokenSelect calls made on it: log holds
\* the calls, sets the selection each call found
SelectionOff == [pc |-> "off", selectedTokens |-> {}, log |-> <<>>, sets |-> <<>>]
SelectionOf(selectedTokens) ==
    [SelectionOff EXCEPT !.pc = "ready", !.selectedTokens = selectedTokens]

\* one more call of handleTokenSelect on the selection
SelectionCall(s, contractAddress, checked) ==
    [HandleTokenSelect(s, contractAddress, checked) EXCEPT
        !.log = Append(s.log, [contractAddress |-> contractAddress, checked |-> checked]),
        !.sets = Append(s.sets, s.selectedTokens)]

RECURSIVE Pow10(_)
Pow10(n) == IF n = 0 THEN 1 ELSE 10 * Pow10(n - 1)

\* BurnCalls burning the balance in whole units: divided by 10^decimals
BurnCalls_PerDecimals(list) ==
    [k \in 1 .. Len(list) |->
        [to |-> list[k].contractAddress,
         data |-> EncodeFunctionData("transfer",
                     <<BURN_ADDRESS,
                       BigIntOfString(list[k].balance) \div Pow10(list[k].decimals)>>),
         value |-> Undefined]]

\* the calls of handleBurnTokens: selectedTokensList.map(token => ...)
BurnCalls(list) ==
    [k \in 1 .. Len(list) |->
        [to |-> list[k].contractAddress,
         data |-> EncodeFunctionData("transfer",
                     <<BURN_ADDRESS, BigIntOfString(list[k].balance)>>),
         value |-> Undefined]]

\* sendCalls({calls, chainId}): the mutation starts over, pending, and with
\* its data gone the status query of the earlier bundle is off
SendCalls(b, calls) ==
    [b EXCEPT !.isPending = TRUE, !.sendCallsError = FALSE, !.callsId = 0,
              !.isConfirming = FALSE, !.callsStatus = "",
              !.callsStatusError = FALSE, !.calls = calls, !.sent = b.sent + 1]

\* handleBurnTokens without the early return on an empty selectedTokensList
HandleBurn_NoEarlyReturn(b) ==
    LET list == SelectedTokensList(b)
        threw == \E k \in 1 .. Len(list) :
                    BigIntOfString(list[k].balance) = SyntaxError
    IN  IF ~b.publicClient THEN b
        ELSE IF threw THEN [b EXCEPT !.error = "Batched token burn failed"]
        ELSE SendCalls([b EXCEPT !.error = "", !.burned = list, !.listed = b.tokens],
                       BurnCalls(list))

\* handleBurnTokens: the early return, the calls, sendCalls; a throwing
\* BigInt lands in the catch
HandleBurn(b) ==
    LET list == SelectedTokensList(b)
        threw == \E k \in 1 .. Len(list) :
                    BigIntOfString(list[k].balance) = SyntaxError
    IN  IF ~b.publicClient \/ list = <<>> THEN b
        ELSE IF threw THEN [b EXCEPT !.error = "Batched token burn failed"]
        ELSE SendCalls([b EXCEPT !.error = "", !.burned = list, !.listed = b.tokens],
                       BurnCalls(list))

\* the wallet takes the bundle: callsId is there and the status query loads
CallsSubmitted(b) ==
    [b EXCEPT !.isPending = FALSE, !.callsId = b.sent, !.isConfirming = TRUE]

\* CallsRejected dropping the selection with the bundle
CallsRejected_Unselect(b) ==
    [b EXCEPT !.isPending = FALSE, !.sendCallsError = TRUE, !.selectedTokens = {}]

\* the wallet (the user in it) rejects the bundle
CallsRejected(b) == [b EXCEPT !.isPending = FALSE, !.sendCallsError = TRUE]

\* CallsSuccess leaving the selection as it is
CallsSuccess_KeepSelection(b) == b

\* the effect on [isCallsSuccess, callsStatus], the status being success
CallsSuccess(b) == [b EXCEPT !.selectedTokens = {}]

\* the status query settles with the bundle's status, and the effect runs
CallsSettled(b, status) ==
    LET settled == [b EXCEPT !.isConfirming = FALSE, !.callsStatus = status]
    IN  IF status = "success" THEN CallsSuccess(settled) ELSE settled

\* the status query fails
CallsStatusFailed(b) == [b EXCEPT !.isConfirming = FALSE, !.callsStatusError = TRUE]

\* "Close" of the success block
CloseConfirmation(b) == [b EXCEPT !.showConfirmation = FALSE, !.selectedTokens = {}]

\* "Refresh Tokens" of the success block, "Refresh" of the failure block
RefreshTokens(b) == BatchFetchAllTokens(CloseConfirmation(b))

(***************************************************************************)
(* The burn of the TokenBurner component (token-burner.tsx 351-377 and its *)
(* confirmation view).  wagmi's writeContract is the mutate function of    *)
(* useWriteContract: it starts the wallet request and returns undefined,   *)
(* so `await writeContract(...)` does not wait for the wallet and a        *)
(* rejection lands in the hook's error, not in the handler's catch.  The   *)
(* hook reports the mutation started last.                                 *)
(***************************************************************************)
\* most tokens listed, and most runs of handleBurnTokens in a session
MaxSequenceTokens == 2
MaxBurns == 2

\* the pause between two sends, in milliseconds
SendPause == 1000

\* the tokens the component lists, with Alchemy's tokenBalance strings: the
\* last one passes parseInt(s, 16) > 0 and is no BigInt literal
SequenceTokens ==
    { [contractAddress |-> <<"0", "x", "A", "a">>, balance |-> <<"0", "x", "1", "f">>],
      [contractAddress |-> <<"0", "x", "b", "b">>, balance |-> <<"0", "x", "5">>],
      [contractAddress |-> <<"0", "x", "c", "c">>, balance |-> <<"f", "f">>] }

\* the burn state before the component is rendered.  list and i are the
\* selectedTokensList and the index of the running handleBurnTokens (i from
\* 1), now the milliseconds its pauses took, requests the wallet requests
\* made so far; isPending, hash (the request it is the hash of, 0 for none)
\* and writeError are useWriteContract's, isConfirming and isSuccess
\* useWaitForTransactionReceipt's; before is the selection at the last click
\* on the burn button
SequenceOff ==
    [pc |-> "off", publicClient |-> FALSE, tokens |-> <<>>, selectedTokens |-> {},
     showConfirmation |-> FALSE, error |-> "", list |-> <<>>, i |-> 0, now |-> 0,
     requests |-> <<>>, isPending |-> FALSE, hash |-> 0, writeError |-> FALSE,
     isConfirming |-> FALSE, isSuccess |-> FALSE, burns |-> 0, before |-> {}]
SequenceMounted(publicClient, tokens) ==
    [SequenceOff EXCEPT !.pc = "ready", !.publicClient = publicClient,
                        !.tokens = tokens]

\* writeContract({address, abi: erc20Abi, functionName: 'transfer',
\* args: [BURN_ADDRESS, balance], chainId}): the request goes to the wallet
\* and the mutation starts over, pending
WriteContract(s, token, balance) ==
    [s EXCEPT !.requests = Append(@, [to |-> token.contractAddress,
                                      data |-> EncodeFunctionData("transfer",
                                                  <<BURN_ADDRESS, balance>>),
                                      at |-> s.now, run |-> s.burns,
                                      state |-> "wallet"]),
              !.isPending = TRUE, !.writeError = FALSE, !.hash = 0,
              !.isConfirming = FALSE, !.isSuccess = FALSE]

\* one iteration of the loop of handleBurnTokens up to its pause: BigInt,
\* writeContract, and the timer unless the token is the last; a throwing
\* BigInt lands in the catch
SequenceIteration(s) ==
    LET token == s.list[s.i]
        balance == BigIntOfString(token.balance)
    IN  IF balance = SyntaxError
        THEN [s EXCEPT !.error = "Transaction failed", !.pc = "ready"]
        ELSE [WriteContract(s, token, balance) EXCEPT
                 !.pc = IF s.i < Len(s.list) THEN "pause" ELSE "ready"]

\* handleBurnTokens up to its first pause
SequenceHandleBurn(s) ==
    LET list == SelectedTokensList(s)
    IN  IF ~s.publicClient \/ list = <<>> THEN s
        ELSE SequenceIteration([s EXCEPT !.list = list, !.i = 1,
                                         !.burns = s.burns + 1,
                                         !.before = s.selectedTokens])

\* the timer of the pause fires: i++ and the next iteration
SequencePauseOver(s) ==
    SequenceIteration([s EXCEPT !.now = s.now + SendPause, !.i = s.i + 1])

\* the wallet answers its k-th request; the hook hears of it only when the
\* request is the one made last
WalletSettled(s, k, approved) ==
    LET r == [s EXCEPT !.requests[k].state =
                          IF approved THEN "submitted" ELSE "rejected"]
    IN  IF k # Len(s.requests) THEN r
        ELSE IF approved
        THEN [r EXCEPT !.isPending = FALSE, !.hash = k, !.isConfirming = TRUE]
        ELSE [r EXCEPT !.isPending = FALSE, !.writeError = TRUE]

\* useWaitForTransactionReceipt({hash}) settles: the receipt, or an error
ReceiptSettled(s, ok) ==
    [s EXCEPT !.isConfirming = FALSE, !.isSuccess = ok]

\* the buttons of the confirmation: disabled={isPending || isConfirming}
SequenceBurnEnabled(s) ==
    s.pc # "off" /\ s.showConfirmation /\ ~(s.isPending \/ s.isConfirming)

(***************************************************************************)
(* Actions of the retry helper.                                            *)
(***************************************************************************)
\* the pending fetch() settles
FetchSettles ==
    /\ fr.pc = "fetch"
    /\ \E outcome \in Outcomes : fr' = FRAttempt(fr, outcome)
    /\ UNCHANGED <<rt, tb, scan, lib, bt, sq, sel>>

\* the backoff timer fires
TimerFires ==
    /\ fr.pc = "sleep"
    /\ fr' = FRWake(fr)
    /\ UNCHANGED <<rt, tb, scan, lib, bt, sq, sel>>

(***************************************************************************)
(* Actions of the route.                                                   *)
(***************************************************************************)
\* the handler runs up to its first await
GETBegin ==
    /\ rt.pc = "start"
    /\ rt' = RouteBegin(rt)[1]
    /\ fr' = RouteBegin(rt)[2]
    /\ UNCHANGED <<tb, scan, lib, bt, sq, sel>>

\* the Zapper request came back 2xx and response.json() resolves
ZapperResponds ==
    /\ rt.pc = "zapper"
    /\ fr.pc = "returned"
    /\ \E body \in ZapperBodies :
          LET next == RouteAfterZapper([rt EXCEPT !.zapperEdges = body.edges],
                                       ZapperProcess(body))
          IN  rt' = next[1] /\ fr' = next[2]
    /\ UNCHANGED <<tb, scan, lib, bt, sq, sel>>

\* fetchWithRetry threw inside fetchZapperTokens
ZapperFails ==
    /\ rt.pc = "zapper"
    /\ fr.pc = "thrown"
    /\ LET next == RouteAfterZapper(rt, [threw |-> TRUE, tokens |-> <<>>,
                                          err |-> fr.err])
       IN  rt' = next[1] /\ fr' = next[2]
    /\ UNCHANGED <<tb, scan, lib, bt, sq, sel>>

\* a page request came back 2xx and response.json() resolves
AlchemyPageResponds ==
    /\ rt.pc = "alchemy"
    /\ fr.pc = "returned"
    /\ \E body \in AlchemyBodies(rt.rawTokens) :
          LET next == RouteAlchemyPage(rt, body)
          IN  rt' = next[1] /\ fr' = next[2]
    /\ UNCHANGED <<tb, scan, lib, bt, sq, sel>>

\* fetchWithRetry threw inside fetchAlchemyPortfolioTokens
AlchemyFails ==
    /\ rt.pc = "alchemy"
    /\ fr.pc = "thrown"
    /\ rt' = RouteAfterAlchemy(rt, [threw |-> TRUE, tokens |-> <<>>])
    /\ fr' = FRIdle
    /\ UNCHANGED <<tb, scan, lib, bt, sq, sel>>

Addresses == {"", "0xw1"}

InitRoute ==
    /\ \E address \in Addresses, zapperApiKey \in BOOLEAN, alchemyApiKey \in BOOLEAN :
          rt = RouteRequest(address, zapperApiKey, alchemyApiKey)
    /\ fr = FRIdle
    /\ tb = BurnerOff
    /\ scan = ScanOff
    /\ lib = LibOff
    /\ bt = BatchOff
   
    /\ sq = SequenceOff /\ sel = SelectionOff

NextRoute ==
    \/ GETBegin
    \/ FetchSettles
    \/ TimerFires
    \/ ZapperResponds
    \/ ZapperFails
    \/ AlchemyPageResponds
    \/ AlchemyFails

SpecRoute == InitRoute /\ [][NextRoute]_vars

(***************************************************************************)
(* Actions of the TokenBurner component (token-burner.tsx).                *)
(***************************************************************************)
\* the wallet connects: the effect on [isConnected, address] runs
\* fetchPriorityTokens
WalletConnects ==
    /\ tb.mounted /\ tb.address = ""
    /\ \E address \in Addresses \ {""} :
          LET next == ScanBegin([tb EXCEPT !.address = address], "priority")
          IN  tb' = next[1] /\ scan' = next[2]
    /\ UNCHANGED <<fr, rt, lib, bt, sq, sel>>

\* "Retry Priority", shown with the error
ClickRetryPriority ==
    /\ tb.address # "" /\ tb.error # NoUiError
    /\ LET next == ScanBegin(tb, "priority")
       IN  tb' = next[1] /\ scan' = IF next[2] = ScanOff THEN scan ELSE next[2]
    /\ UNCHANGED <<fr, rt, lib, bt, sq, sel>>

\* "Scan All Tokens" of the empty list, "Load All Tokens" of the priority list
ClickLoadAllTokens ==
    /\ tb.address # "" /\ tb.loadingState.phase = "idle"
    /\ \/ tb.error = NoUiError /\ tb.tokens = <<>>
       \/ tb.tokens # <<>> /\ ~tb.allTokensLoaded
    /\ LET next == ScanBegin(tb, "all")
       IN  tb' = next[1] /\ scan' = IF next[2] = ScanOff THEN scan ELSE next[2]
    /\ UNCHANGED <<fr, rt, lib, bt, sq, sel>>

\* the pending fetch() of the scan settles
ScanFetchSettles ==
    /\ scan.pc \in {"balances", "metadata"} /\ scan.fr.pc = "fetch"
    /\ \E outcome \in Outcomes :
          LET after == FRAttempt(scan.fr, outcome)
          IN  /\ scan' = [scan EXCEPT !.fr = after]
              /\ tb' = ApplyOnRetry(tb, scan.fr, after)
    /\ UNCHANGED <<fr, rt, lib, bt, sq, sel>>

\* the backoff timer of the scan fires
ScanTimerFires ==
    /\ scan.pc \in {"balances", "metadata"} /\ scan.fr.pc = "sleep"
    /\ scan' = [scan EXCEPT !.fr = FRWake(scan.fr)]
    /\ UNCHANGED <<fr, rt, tb, lib, bt, sq, sel>>

\* alchemy_getTokenBalances came back 2xx
BalancesRespond ==
    /\ scan.pc = "balances" /\ scan.fr.pc = "returned"
    /\ \E body \in BalancesBodies(scan.kind) :
          LET next == ScanBalances(tb, scan, body)
          IN  tb' = next[1] /\ scan' = next[2]
    /\ UNCHANGED <<fr, rt, lib, bt, sq, sel>>

\* fetchWithRetry threw in the scan's try block
BalancesFail ==
    /\ scan.pc = "balances" /\ scan.fr.pc = "thrown"
    /\ LET next == ScanCatch(tb, scan, scan.fr.err)
       IN  tb' = next[1] /\ scan' = next[2]
    /\ UNCHANGED <<fr, rt, lib, bt, sq, sel>>

\* the loop takes its next entry
NextToken ==
    /\ scan.pc = "loop"
    /\ LET next == ScanIteration(tb, scan)
       IN  tb' = next[1] /\ scan' = next[2]
    /\ UNCHANGED <<fr, rt, lib, bt, sq, sel>>

\* alchemy_getTokenMetadata came back 2xx
MetadataResponds ==
    /\ scan.pc = "metadata" /\ scan.fr.pc = "returned"
    /\ \E body \in MetadataBodies :
          LET next == ScanMetadata(tb, scan, FALSE, body)
          IN  tb' = next[1] /\ scan' = next[2]
    /\ UNCHANGED <<fr, rt, lib, bt, sq, sel>>

\* fetchWithRetry threw inside fetchTokenMetadata, which catches it
MetadataFails ==
    /\ scan.pc = "metadata" /\ scan.fr.pc = "thrown"
    /\ LET next == ScanMetadata(tb, scan, TRUE, [result |-> FALSE])
       IN  tb' = next[1] /\ scan' = next[2]
    /\ UNCHANGED <<fr, rt, lib, bt, sq, sel>>

InitBurner ==
    /\ \E alchemyApiKey \in BOOLEAN : tb = BurnerMounted(alchemyApiKey)
    /\ scan = ScanOff
    /\ fr = FRIdle
    /\ rt = RouteOff
    /\ lib = LibOff
    /\ bt = BatchOff
   
    /\ sq = SequenceOff /\ sel = SelectionOff

NextBurner ==
    \/ WalletConnects
    \/ ClickRetryPriority
    \/ ClickLoadAllTokens
    \/ ScanFetchSettles
    \/ ScanTimerFires
    \/ BalancesRespond
    \/ BalancesFail
    \/ NextToken
    \/ MetadataResponds
    \/ MetadataFails

SpecBurner == InitBurner /\ [][NextBurner]_vars

\* token acquisition, on the server and in the client
InitAcquisition == InitRoute \/ InitBurner

NextAcquisition == NextRoute \/ NextBurner

SpecAcquisition == InitAcquisition /\ [][NextAcquisition]_vars

RetryArgs == (0 .. MaxRetries) \cup {Undefined}

InitRetry ==
    /\ \E retriesArg \in RetryArgs, hasCb \in BOOLEAN : fr = FRCall(retriesArg, hasCb)
    /\ rt = RouteOff
    /\ tb = BurnerOff
    /\ scan = ScanOff
    /\ lib = LibOff
    /\ bt = BatchOff
   
    /\ sq = SequenceOff /\ sel = SelectionOff

NextRetry == FetchSettles \/ TimerFires

SpecRetry == InitRetry /\ [][NextRetry]_vars

(***************************************************************************)
(* Actions of the burn call builders and of the batch component.           *)
(***************************************************************************)
CreateTokenBurnSteps ==
    /\ lib.pc = "called" /\ lib.fn = "createTokenBurnSteps"
    /\ lib' = [lib EXCEPT !.pc = "steps",
                          !.steps = createTokenBurnSteps(lib.tokenTransfers,
                                                         lib.burnAddress)]
    /\ UNCHANGED <<fr, rt, tb, scan, bt, sq, sel>>

TransactionStepsToBatchCalls ==
    /\ lib.pc = "steps"
    /\ lib' = [lib EXCEPT !.pc = "calls",
                          !.calls = transactionStepsToBatchCalls(lib.steps)]
    /\ UNCHANGED <<fr, rt, tb, scan, bt, sq, sel>>

CreateTokenBurnBatchCalls ==
    /\ lib.pc = "called" /\ lib.fn = "createTokenBurnBatchCalls"
    /\ lib' = [lib EXCEPT !.pc = "calls",
                          !.calls = createTokenBurnBatchCalls(lib.tokenTransfers,
                                                              lib.burnAddress)]
    /\ UNCHANGED <<fr, rt, tb, scan, bt, sq, sel>>

\* the wallet connects: the effect on [isConnected, address] runs
\* fetchAllTokens
BatchWalletConnects ==
    /\ bt.pc = "ready" /\ bt.address = "" /\ bt.fetched < MaxFetches
    /\ \E address \in Wallets : bt' = BatchAddressEffect(bt, address)
    /\ UNCHANGED <<fr, rt, tb, scan, lib, sq, sel>>

\* the wallet switches to another account: the effect runs again
BatchAddressChanges ==
    /\ bt.pc = "ready" /\ bt.address # "" /\ bt.fetched < MaxFetches
    /\ \E address \in Wallets \ {bt.address} : bt' = BatchAddressEffect(bt, address)
    /\ UNCHANGED <<fr, rt, tb, scan, lib, sq, sel>>

\* a request of /api/tokens settles
BatchFetchSettles ==
    /\ bt.pc = "ready"
    /\ \E k \in 1 .. Len(bt.fetches), response \in BatchResponses :
          bt' = BatchFetchSettled(bt, k, response)
    /\ UNCHANGED <<fr, rt, tb, scan, lib, sq, sel>>

\* "Scan All Tokens" of the empty list
BatchScanAllTokens ==
    /\ bt.pc = "ready" /\ bt.address # "" /\ ~bt.showConfirmation
    /\ bt.phase = "idle" /\ bt.error = "" /\ bt.tokens = <<>>
    /\ bt.fetched < MaxFetches
    /\ bt' = BatchFetchAllTokens(bt)
    /\ UNCHANGED <<fr, rt, tb, scan, lib, sq, sel>>

\* a checkbox of the list changes
TokenSelect ==
    /\ bt.pc = "ready" /\ ShowsTokenList(bt)
    /\ \E k \in 1 .. Len(bt.tokens), checked \in BOOLEAN :
          bt' = HandleTokenSelect(bt, bt.tokens[k].contractAddress, checked)
    /\ UNCHANGED <<fr, rt, tb, scan, lib, sq, sel>>

\* "Clear Selection"
ClearSelection ==
    /\ bt.pc = "ready" /\ ShowsTokenList(bt) /\ bt.selectedTokens # {}
    /\ bt' = [bt EXCEPT !.selectedTokens = {}]
    /\ UNCHANGED <<fr, rt, tb, scan, lib, sq, sel>>

\* "Burn Selected"
OpenConfirmation ==
    /\ bt.pc = "ready" /\ ShowsTokenList(bt) /\ bt.selectedTokens # {}
    /\ bt' = [bt EXCEPT !.showConfirmation = TRUE]
    /\ UNCHANGED <<fr, rt, tb, scan, lib, sq, sel>>

\* "Cancel", and "Go Back" of the failure block
CancelConfirmation ==
    /\ bt.pc = "ready" /\ BurnEnabled(bt)
    /\ bt' = [bt EXCEPT !.showConfirmation = FALSE]
    /\ UNCHANGED <<fr, rt, tb, scan, lib, sq, sel>>

\* the burn button of the confirmation, and "Try Again" of the failure block
HandleBurnTokens ==
    /\ bt.pc = "ready" /\ BurnEnabled(bt) /\ bt.sent < MaxSends
    /\ bt' = HandleBurn(bt)
    /\ UNCHANGED <<fr, rt, tb, scan, lib, sq, sel>>

\* the wallet takes the bundle
WalletApproves ==
    /\ bt.pc = "ready" /\ bt.isPending
    /\ bt' = CallsSubmitted(bt)
    /\ UNCHANGED <<fr, rt, tb, scan, lib, sq, sel>>

\* the wallet rejects the bundle
WalletRejects ==
    /\ bt.pc = "ready" /\ bt.isPending
    /\ bt' = CallsRejected(bt)
    /\ UNCHANGED <<fr, rt, tb, scan, lib, sq, sel>>

\* the bundle settles
CallsSettle ==
    /\ bt.pc = "ready" /\ bt.isConfirming
    /\ \E status \in {"success", "failure"} : bt' = CallsSettled(bt, status)
    /\ UNCHANGED <<fr, rt, tb, scan, lib, sq, sel>>

\* the status of the bundle cannot be had
CallsStatusFails ==
    /\ bt.pc = "ready" /\ bt.isConfirming
    /\ bt' = CallsStatusFailed(bt)
    /\ UNCHANGED <<fr, rt, tb, scan, lib, sq, sel>>

\* "Close" of the success block
CloseAfterSuccess ==
    /\ bt.pc = "ready" /\ ShowsSuccess(bt)
    /\ bt' = CloseConfirmation(bt)
    /\ UNCHANGED <<fr, rt, tb, scan, lib, sq, sel>>

\* "Refresh Tokens" of the success block, "Refresh" of the failure block
ClickRefreshTokens ==
    /\ bt.pc = "ready" /\ (ShowsSuccess(bt) \/ ShowsFailure(bt))
    /\ bt.fetched < MaxFetches
    /\ bt' = RefreshTokens(bt)
    /\ UNCHANGED <<fr, rt, tb, scan, lib, sq, sel>>

InitBurnCalls ==
    /\ fr = FRIdle /\ rt = RouteOff /\ tb = BurnerOff /\ scan = ScanOff
    /\ sq = SequenceOff /\ sel = SelectionOff
    /\ \/ /\ bt = BatchOff
          /\ \E fn \in {"createTokenBurnSteps", "createTokenBurnBatchCalls"},
                tokenTransfers \in InjSeqs(Transfers, MaxTransfers),
                burnAddress \in {<<>>, OtherBurnAddress} :
                lib = LibCall(fn, tokenTransfers, burnAddress)
       \/ /\ lib = LibOff
          /\ \E publicClient \in BOOLEAN : bt = BatchMounted(publicClient)

NextBurnCalls ==
    \/ CreateTokenBurnSteps
    \/ TransactionStepsToBatchCalls
    \/ CreateTokenBurnBatchCalls
    \/ BatchWalletConnects
    \/ BatchAddressChanges
    \/ BatchFetchSettles
    \/ BatchScanAllTokens
    \/ TokenSelect
    \/ ClearSelection
    \/ OpenConfirmation
    \/ CancelConfirmation
    \/ HandleBurnTokens
    \/ WalletApproves
    \/ WalletRejects
    \/ CallsSettle
    \/ CallsStatusFails
    \/ CloseAfterSuccess
    \/ ClickRefreshTokens

SpecBurnCalls == InitBurnCalls /\ [][NextBurnCalls]_vars

(***************************************************************************)
(* Actions of the burn of the TokenBurner component.                       *)
(***************************************************************************)
\* a checkbox of the token list
SequenceTokenSelect ==
    /\ sq.pc # "off" /\ ~sq.showConfirmation
    /\ \E k \in 1 .. Len(sq.tokens), checked \in BOOLEAN :
          sq' = HandleTokenSelect(sq, sq.tokens[k].contractAddress, checked)
    /\ UNCHANGED <<fr, rt, tb, scan, lib, bt, sel>>

\* "Clear Selection"
SequenceClearSelection ==
    /\ sq.pc # "off" /\ ~sq.showConfirmation /\ sq.selectedTokens # {}
    /\ sq' = [sq EXCEPT !.selectedTokens = {}]
    /\ UNCHANGED <<fr, rt, tb, scan, lib, bt, sel>>

\* "Burn Selected"
SequenceOpenConfirmation ==
    /\ sq.pc # "off" /\ ~sq.showConfirmation /\ sq.selectedTokens # {}
    /\ sq' = [sq EXCEPT !.showConfirmation = TRUE]
    /\ UNCHANGED <<fr, rt, tb, scan, lib, bt, sel>>

\* "Cancel"
SequenceCancelConfirmation ==
    /\ SequenceBurnEnabled(sq)
    /\ sq' = [sq EXCEPT !.showConfirmation = FALSE]
    /\ UNCHANGED <<fr, rt, tb, scan, lib, bt, sel>>

\* "Burn N Tokens": handleBurnTokens, one run at a time
SequenceClickBurn ==
    /\ SequenceBurnEnabled(sq) /\ sq.pc = "ready" /\ sq.burns < MaxBurns
    /\ sq' = SequenceHandleBurn(sq)
    /\ UNCHANGED <<fr, rt, tb, scan, lib, bt, sel>>

\* the 1-second timer of the loop fires
SequencePauseEnds ==
    /\ sq.pc = "pause"
    /\ sq' = SequencePauseOver(sq)
    /\ UNCHANGED <<fr, rt, tb, scan, lib, bt, sel>>

\* the user approves a request in the wallet
SequenceWalletApproves ==
    /\ \E k \in 1 .. Len(sq.requests) :
          sq.requests[k].state = "wallet" /\ sq' = WalletSettled(sq, k, TRUE)
    /\ UNCHANGED <<fr, rt, tb, scan, lib, bt, sel>>

\* the user rejects a request in the wallet
SequenceWalletRejects ==
    /\ \E k \in 1 .. Len(sq.requests) :
          sq.requests[k].state = "wallet" /\ sq' = WalletSettled(sq, k, FALSE)
    /\ UNCHANGED <<fr, rt, tb, scan, lib, bt, sel>>

\* the receipt of the transaction arrives
ReceiptArrives ==
    /\ sq.isConfirming
    /\ sq' = ReceiptSettled(sq, TRUE)
    /\ UNCHANGED <<fr, rt, tb, scan, lib, bt, sel>>

\* waiting for the receipt fails
ReceiptFails ==
    /\ sq.isConfirming
    /\ sq' = ReceiptSettled(sq, FALSE)
    /\ UNCHANGED <<fr, rt, tb, scan, lib, bt, sel>>

InitSequentialBurn ==
    /\ fr = FRIdle /\ rt = RouteOff /\ tb = BurnerOff /\ scan = ScanOff
    /\ lib = LibOff /\ bt = BatchOff /\ sel = SelectionOff
    /\ \E publicClient \in BOOLEAN,
          tokens \in InjSeqs(SequenceTokens, MaxSequenceTokens) :
          sq = SequenceMounted(publicClient, tokens)

NextSequentialBurn ==
    \/ SequenceTokenSelect
    \/ SequenceClearSelection
    \/ SequenceOpenConfirmation
    \/ SequenceCancelConfirmation
    \/ SequenceClickBurn
    \/ SequencePauseEnds
    \/ SequenceWalletApproves
    \/ SequenceWalletRejects
    \/ ReceiptArrives
    \/ ReceiptFails

SpecSequentialBurn == InitSequentialBurn /\ [][NextSequentialBurn]_vars

(***************************************************************************)
(* handleTokenSelect on its own (token-burner.tsx 341-349 and              *)
(* batch-transfer-example.tsx 154-162, the same function).                 *)
(***************************************************************************)
\* handleTokenSelect(contractAddress, checked) is called
TokenSelectCalled ==
    /\ sel.pc = "ready" /\ Len(sel.log) < MaxSelectCalls
    /\ \E contractAddress \in SelectableAddresses, checked \in BOOLEAN :
          sel' = SelectionCall(sel, contractAddress, checked)
    /\ UNCHANGED <<fr, rt, tb, scan, lib, bt, sq>>

InitSelection ==
    /\ fr = FRIdle /\ rt = RouteOff /\ tb = BurnerOff /\ scan = ScanOff
    /\ lib = LibOff /\ bt = BatchOff /\ sq = SequenceOff
    /\ \E selectedTokens \in SUBSET SelectableAddresses :
          sel = SelectionOf(selectedTokens)

NextSelection == TokenSelectCalled

SpecSelection == InitSelection /\ [][NextSelection]_vars

(***************************************************************************)
(* The token fetches of the two components with the scheduling the runtime *)
(* gives them: a pending fetch() settles, a timer fires, and a resumed      *)
(* async function runs on.  The user's clicks are under no obligation.     *)
(***************************************************************************)
\* the running scan takes its next step
ScanAdvances ==
    \/ ScanFetchSettles
    \/ ScanTimerFires
    \/ BalancesRespond
    \/ BalancesFail
    \/ NextToken
    \/ MetadataResponds
    \/ MetadataFails

\* either component, freshly rendered
InitFetch ==
    /\ fr = FRIdle /\ rt = RouteOff /\ scan = ScanOff /\ lib = LibOff
    /\ sq = SequenceOff /\ sel = SelectionOff
    /\ \/ bt = BatchOff /\ \E alchemyApiKey \in BOOLEAN : tb = BurnerMounted(alchemyApiKey)
       \/ tb = BurnerOff /\ \E publicClient \in BOOLEAN : bt = BatchMounted(publicClient)

\* what starts a fetch from the list view of either component, and what a
\* fetch does
NextFetch ==
    \/ NextBurner
    \/ BatchWalletConnects
    \/ BatchAddressChanges
    \/ BatchFetchSettles
    \/ BatchScanAllTokens

FairFetch ==
    /\ InitFetch /\ [][NextFetch]_vars
    /\ WF_vars(ScanAdvances)
    /\ WF_vars(BatchFetchSettles)

(***************************************************************************)
(* Claims about fetchWithRetry.                                            *)
(***************************************************************************)
Is2xx(outcome) == outcome >= 200 /\ outcome <= 299
Requests(log) == SelectSeq(log, LAMBDA e : e.ev = "fetch")
Callbacks(log) == SelectSeq(log, LAMBDA e : e.ev = "onRetry")
AllAttemptsFailed ==
    /\ fr.pc = "thrown"
    /\ fr.retries >= 1
    /\ \A k \in 1 .. Len(fr.log) : fr.log[k].ev = "fetch" => ~Is2xx(fr.log[k].b)

\* C6: fetchWithRetry issues at most `retries` requests, in order; it returns
\* the first 2xx response and issues no request after it; after a failure
\* (network failure or non-2xx) with attempts remaining it goes on to another
\* request, so it only throws once all `retries` attempts were made.
C6_AtMostRetriesRequests ==
    LET reqs == Requests(fr.log)
        n == Len(reqs)
    IN  fr.pc # "idle" =>
          /\ n <= fr.retries
          /\ \A k \in 1 .. n : reqs[k].a = k - 1
          /\ \A k \in 1 .. n - 1 : ~Is2xx(reqs[k].b)
          /\ fr.pc = "returned" =>
                n >= 1 /\ Is2xx(reqs[n].b) /\ fr.status = reqs[n].b
          /\ fr.pc = "thrown" => n = fr.retries
          /\ (n >= 1 /\ ~Is2xx(reqs[n].b) /\ n < fr.retries) =>
                fr.pc \in {"sleep", "fetch"}

\* a call that returned the response of its second attempt
C6_Witness ==
    /\ fr.pc = "returned"
    /\ Len(Requests(fr.log)) = 2
    /\ fr.retries = DefaultRetries

\* C7 (as stated): a call whose every attempt failed fails with the generic
\* "Max retries exceeded" error.
C7_GenericErrorOnExhaustion ==
    AllAttemptsFailed => fr.err.msg = "Max retries exceeded"

\* C7 (amended): a call whose every attempt failed fails with the error of its
\* final attempt (HTTP <status>, or the network failure); "Max retries
\* exceeded" is thrown only when the budget admits no attempt at all.
C7_LastAttemptErrorOnExhaustion ==
    LET reqs == Requests(fr.log)
        n == Len(reqs)
    IN  fr.pc = "thrown" =>
          IF n >= 1
          THEN fr.err = IF reqs[n].b = NetworkFailure
                        THEN [msg |-> "fetch failed", status |-> 0]
                        ELSE [msg |-> "HTTP", status |-> reqs[n].b]
          ELSE fr.retries = 0 /\ fr.err.msg = "Max retries exceeded"

\* three failed attempts of the default budget, the last one an HTTP 500
C7_Witness ==
    /\ AllAttemptsFailed
    /\ fr.retries = DefaultRetries
    /\ fr.err = [msg |-> "HTTP", status |-> 500]

C9_WaitIsTwoToTheAttempt ==
    /\ fr.pc = "sleep" => fr.delay = (2 ^ fr.i) * 1000
    /\ \A k \in 1 .. Len(fr.log) :
          fr.log[k].ev = "sleep" =>
            \E j \in 1 .. k - 1 :
              /\ fr.log[j].ev = "fetch"
              /\ ~Is2xx(fr.log[j].b)
              /\ \A m \in j + 1 .. k - 1 : fr.log[m].ev = "onRetry"
              /\ fr.log[k].a = (2 ^ fr.log[j].a) * 1000

\* waiting 2 s after a second attempt that was answered 304, the first having
\* failed in the network
C9_Witness ==
    /\ fr.pc = "sleep"
    /\ fr.i = 1
    /\ fr.delay = 2000
    /\ Requests(fr.log) = <<[ev |-> "fetch", a |-> 0, b |-> NetworkFailure],
                            [ev |-> "fetch", a |-> 1, b |-> 304]>>

\* C10: a supplied progress callback is invoked exactly once per failed
\* non-final attempt, right after that failure and right before the backoff
\* wait, with (1-based number of the failed attempt, maxAttempts); it is not
\* invoked after the final failed attempt nor after a success, nor when no
\* callback was supplied.
C10_CallbackBeforeEachWait ==
    LET log == fr.log
        sleeps == SelectSeq(log, LAMBDA e : e.ev = "sleep")
    IN  /\ ~fr.hasCb => Callbacks(log) = <<>>
        /\ fr.hasCb => Len(Callbacks(log)) = Len(sleeps)
        /\ \A k \in 1 .. Len(log) :
              log[k].ev = "onRetry" =>
                /\ k > 1 /\ k < Len(log)
                /\ log[k - 1].ev = "fetch" /\ ~Is2xx(log[k - 1].b)
                /\ log[k].a = log[k - 1].a + 1
                /\ log[k].a < fr.retries
                /\ log[k].b = fr.retries
                /\ log[k + 1].ev = "sleep"
        /\ FRDone(fr) => (log # <<>> => log[Len(log)].ev = "fetch")

\* a call with a callback that failed three times: two invocations, (1,3), (2,3)
C10_Witness ==
    /\ fr.hasCb
    /\ fr.pc = "thrown"
    /\ fr.retries = 3
    /\ Callbacks(fr.log) = <<[ev |-> "onRetry", a |-> 1, b |-> 3],
                             [ev |-> "onRetry", a |-> 2, b |-> 3]>>

(***************************************************************************)
(* Claims about GET /api/tokens/{address}.                                 *)
(***************************************************************************)
Queried(provider) == \E k \in 1 .. Len(rt.queried) : rt.queried[k] = provider

\* the two lists hold the same tokens, each as often
SameTokens(a, b) ==
    /\ Len(a) = Len(b)
    /\ \A x \in {a[k] : k \in 1 .. Len(a)} \cup {b[k] : k \in 1 .. Len(b)} :
          Cardinality({k \in 1 .. Len(a) : a[k] = x}) =
          Cardinality({k \in 1 .. Len(b) : b[k] = x})

\* the edges of Zapper's answer that hold something: a positive formatted or
\* raw balance
ZapperHoldings ==
    {k \in 1 .. Len(rt.zapperEdges) :
        \/ rt.zapperEdges[k].balance > 0
        \/ rt.zapperEdges[k].balanceRaw \notin {<<>>, <<"0">>}}

ZapperGaveNothing ==
    \/ ~rt.zapperApiKey
    \/ rt.zapper = "threw"
    \/ rt.zapper = "returned" /\ ZapperHoldings = {}

\* C1: Zapper is queried first when its key is configured (and only then);
\* Alchemy is queried if and only if its key is configured and Zapper was
\* unconfigured, threw or yielded no token; when Alchemy then yields at least
\* one token the response is that token list with source "alchemy-portfolio".
C1_ZapperThenAlchemy ==
    (rt.pc \notin {"off", "start"} /\ rt.address # "") =>
      /\ rt.zapperApiKey <=> Queried("zapper")
      /\ rt.zapperApiKey => rt.queried[1] = "zapper"
      /\ Len(rt.queried) <= 2
      /\ Queried("alchemy-portfolio") => (rt.alchemyApiKey /\ ZapperGaveNothing)
      /\ (rt.pc = "done" /\ rt.alchemyApiKey /\ ZapperGaveNothing) =>
              Queried("alchemy-portfolio")
      /\ (rt.pc = "done" /\ rt.alchemy = "returned" /\ rt.allTokens # <<>>
          /\ Queried("alchemy-portfolio")) =>
              /\ rt.response.status = 200
              /\ rt.response.source = "alchemy-portfolio"
              /\ SameTokens(rt.response.tokens, rt.allTokens)

\* Zapper failed in the network, Alchemy answered one holding
C1_Witness ==
    /\ rt.pc = "done"
    /\ rt.zapper = "threw"
    /\ rt.zapperError = NetworkError
    /\ rt.alchemy = "returned"
    /\ Len(rt.response.tokens) = 1
    /\ rt.response.source = "alchemy-portfolio"

EveryConfiguredProviderThrew ==
    /\ rt.pc = "done"
    /\ rt.address # ""
    /\ rt.zapperApiKey \/ rt.alchemyApiKey
    /\ rt.zapperApiKey => rt.zapper = "threw"
    /\ rt.alchemyApiKey => rt.alchemy = "threw"

\* C2: a provider exception does not abort the acquisition while another
\* configured provider succeeds, and when every configured provider threw the
\* response is an {error} body with status 500, not a token list.
C2_ErrorWhenAllProvidersFail ==
    /\ (rt.pc = "done" /\ rt.zapper = "threw" /\ rt.alchemy = "returned"
        /\ rt.allTokens # <<>>) =>
            rt.response.status = 200 /\ rt.response.tokens # <<>>
    /\ EveryConfiguredProviderThrew =>
            rt.response.status = 500 /\ rt.response.error # ""

\* all providers failed while both keys were configured, and the answer is a
\* 200 with the empty list
C2_Witness ==
    /\ EveryConfiguredProviderThrew
    /\ rt.zapperApiKey /\ rt.alchemyApiKey
    /\ rt.response = TokensResponse(<<>>, "none")

(***************************************************************************)
(* Claims about the acquired token list, on the server and in the client.  *)
(***************************************************************************)
\* the (contract address, balance string) pairs of a token list
Holdings(tokens) ==
    {<<tokens[k].contractAddress, tokens[k].balance>> : k \in 1 .. Len(tokens)}

\* what Zapper answered with a nonzero balance, as (address, raw balance)
ZapperNonzero ==
    {<<rt.zapperEdges[k].tokenAddress, rt.zapperEdges[k].balanceRaw>> :
        k \in ZapperHoldings}

\* what the Alchemy portfolio pages answered with a nonzero balance
AlchemyNonzeroTokens ==
    {rt.rawTokens[k] : k \in {j \in 1 .. Len(rt.rawTokens) :
                                ParseInt16(rt.rawTokens[j].tokenBalance) > 0}}
AlchemyNonzero == {<<t.tokenAddress, t.tokenBalance>> : t \in AlchemyNonzeroTokens}

\* of these, the ERC20 entries with metadata: a contract address and decimals
AlchemyAdmitted ==
    {<<t.tokenAddress, t.tokenBalance>> :
        t \in {u \in AlchemyNonzeroTokens : u.tokenAddress # "" /\ u.decimals # Null}}

\* what alchemy_getTokenBalances answered the scan with a nonzero balance
ScanNonzeroEntries ==
    {scan.answered[k] : k \in {j \in 1 .. Len(scan.answered) :
                                 ParseInt16(scan.answered[j].tokenBalance) > 0}}
ScanNonzero == {<<e.contractAddress, e.tokenBalance>> : e \in ScanNonzeroEntries}

\* of these, the tokens whose metadata lookup gave metadata
ScanAdmitted ==
    {<<e.contractAddress, e.tokenBalance>> :
        e \in {x \in ScanNonzeroEntries : x.contractAddress \notin scan.noMetadata}}

RouteAnswered == rt.pc = "done" /\ rt.response.status = 200

\* C3 as stated: every token a provider returned with a nonzero balance is in
\* the acquired list under its contract address with the provider's raw
\* balance string, in the route's answer and after either client scan,
\* whatever became of the metadata lookups.
C3_EveryNonzeroTokenAcquired ==
    /\ (RouteAnswered /\ rt.zapper = "returned") =>
            ZapperNonzero \subseteq Holdings(rt.response.tokens)
    /\ (RouteAnswered /\ rt.alchemy = "returned") =>
            AlchemyNonzero \subseteq Holdings(rt.response.tokens)
    /\ scan.pc = "done" => ScanNonzero \subseteq Holdings(tb.tokens)

\* C3, amended: every token a provider returned with a nonzero balance and
\* for which metadata is at hand (Alchemy portfolio: a contract address and
\* non-null decimals; client scans: the metadata lookup gave metadata) is in
\* the acquired list under its contract address with the provider's raw
\* balance string unchanged.
C3_EveryAdmittedTokenAcquired ==
    /\ (RouteAnswered /\ rt.zapper = "returned") =>
            ZapperNonzero \subseteq Holdings(rt.response.tokens)
    /\ (RouteAnswered /\ rt.alchemy = "returned") =>
            AlchemyAdmitted \subseteq Holdings(rt.response.tokens)
    /\ scan.pc = "done" => ScanAdmitted \subseteq Holdings(tb.tokens)

\* a full scan answered with USDC and a token outside the cache, both held;
\* the second one's metadata lookup failed and the list holds USDC alone,
\* with the balance string of the answer
C3_Witness ==
    /\ scan.pc = "done" /\ scan.kind = "all"
    /\ Len(scan.answered) = 2
    /\ ScanNonzero = {<<Addr(USDC, FALSE), <<"0", "x", "1", "f">>>>,
                      <<Addr("0xaa", FALSE), <<"0", "x", "1", "0">>>>}
    /\ scan.noMetadata = {Addr("0xaa", FALSE)}
    /\ Holdings(tb.tokens) = {<<Addr(USDC, FALSE), <<"0", "x", "1", "f">>>>}

\* C4: every token of the returned or displayed list was built from a
\* provider entry whose balance is strictly greater than zero: the answer of
\* the route from Zapper or from the Alchemy portfolio, and the lists of the
\* client's priority and full scans, hold no zero-balance token.
C4_NoZeroBalanceToken ==
    /\ rt.pc = "done" =>
          /\ rt.response.source = "zapper" =>
                /\ Holdings(rt.response.tokens) \subseteq ZapperNonzero
                /\ \A k \in 1 .. Len(rt.response.tokens) :
                      NumberOfString(rt.response.tokens[k].balance) > 0
          /\ rt.response.source = "alchemy-portfolio" =>
                /\ Holdings(rt.response.tokens) \subseteq AlchemyNonzero
                /\ \A k \in 1 .. Len(rt.response.tokens) :
                      ParseInt16(rt.response.tokens[k].balance) > 0
          /\ rt.response.source \notin {"zapper", "alchemy-portfolio"} =>
                rt.response.tokens = <<>>
    /\ Holdings(scan.tokensWithMetadata) \subseteq ScanNonzero
    /\ scan.pc = "done" => Holdings(tb.tokens) \subseteq ScanNonzero
    /\ \A k \in 1 .. Len(tb.tokens) : ParseInt16(tb.tokens[k].balance) > 0

\* Zapper answered with a held token and a zero-balance one, and the route's
\* list holds the first alone
C4_Witness ==
    /\ rt.pc = "done" /\ rt.response.source = "zapper"
    /\ Len(rt.zapperEdges) = 2
    /\ \E k \in 1 .. 2 : rt.zapperEdges[k].balanceRaw = <<"0">>
    /\ Len(rt.response.tokens) = 1
    /\ NumberOfString(rt.response.tokens[1].balance) > 0

(***************************************************************************)
(* Claims about the burn call builders.                                    *)
(***************************************************************************)
\* the 20 bytes of 0x000000000000000000000000000000000000dEaD
DeadWord == [k \in 1 .. 40 |-> IF k <= 36 THEN 0 ELSE <<13, 14, 10, 13>>[k - 36]]

\* transfer(0x...dEaD, amount) sent to the contract, nothing attached
BurnTransfer(contract, amount) ==
    [to |-> contract,
     data |-> [selector |-> "0xa9059cbb", args |-> <<DeadWord, amount>>],
     value |-> Undefined]

\* C5: the burn call builders, handed N tokens (and no other burn address),
\* give N calls in the order of the input; call i goes to token i's contract
\* and is transfer(0x000000000000000000000000000000000000dEaD, token i's
\* full raw balance) with no value attached: createTokenBurnSteps (as steps
\* and once converted to calls), createTokenBurnBatchCalls, and the calls
\* handleBurnTokens sends for the selected tokens.
C5_BurnCallsTransferFullBalance ==
    /\ (lib.pc \in {"steps", "calls"} /\ lib.fn = "createTokenBurnSteps"
        /\ lib.burnAddress = <<>>) =>
          /\ Len(lib.steps) = Len(lib.tokenTransfers)
          /\ \A k \in 1 .. Len(lib.steps) :
                /\ lib.steps[k].contractAddress = lib.tokenTransfers[k].tokenAddress
                /\ lib.steps[k].functionName = "transfer"
                /\ AddressWord(lib.steps[k].args[1]) = DeadWord
                /\ lib.steps[k].args[2] = lib.tokenTransfers[k].amount
                /\ lib.steps[k].value = Undefined
    /\ (lib.pc = "calls" /\ lib.burnAddress = <<>>) =>
          /\ Len(lib.calls) = Len(lib.tokenTransfers)
          /\ \A k \in 1 .. Len(lib.calls) :
                lib.calls[k] = BurnTransfer(lib.tokenTransfers[k].tokenAddress,
                                            lib.tokenTransfers[k].amount)
    /\ bt.sent > 0 =>
          /\ Len(bt.calls) = Len(bt.burned)
          /\ \A k \in 1 .. Len(bt.calls) :
                bt.calls[k] = BurnTransfer(bt.burned[k].contractAddress,
                                           NumberOfString(bt.burned[k].balance))

\* handleBurnTokens sent two calls: the token with the hex balance 0x1f
\* first, then the one with the decimal balance 1500
C5_Witness ==
    /\ bt.sent = 1
    /\ Len(bt.burned) = 2
    /\ bt.burned[1].balance = <<"0", "x", "1", "f">>
    /\ bt.burned[2].balance = <<"1", "5", "0", "0">>
    /\ bt.calls[1].data.args[2] = 31
    /\ bt.calls[2].data.args[2] = 1500

(***************************************************************************)
(* Claims about the page loop of fetchAlchemyPortfolioTokens.              *)
(***************************************************************************)
\* C11: the page loop of fetchAlchemyPortfolioTokens ends: it requests at
\* most 10 pages, even when every page carries a continuation key; it goes on
\* to another page only after a page that carried a key, sending that key
\* with the request (the first request sends none); and it has ended once a
\* page carried no key or the tenth page was read.
C11_PageLoopBounded ==
    /\ rt.pageCount <= maxPages
    /\ rt.pageRequests <= maxPages
    /\ rt.pc = "alchemy" =>
          /\ rt.pageRequests = rt.pageCount + 1
          /\ rt.pageCount < maxPages
          /\ rt.pageCount > 0 => rt.pageKey # ""
          /\ rt.sentKey = rt.pageKey
    /\ rt.alchemy = "returned" =>
          /\ rt.pc # "alchemy"
          /\ rt.pageRequests = rt.pageCount
          /\ rt.pageKey = "" \/ rt.pageCount = maxPages

\* every one of ten pages carried a continuation key, and the loop ended
C11_Witness ==
    /\ rt.alchemy = "returned"
    /\ rt.pageCount = maxPages
    /\ rt.pageRequests = maxPages
    /\ rt.pageKey # ""

(***************************************************************************)
(* Claims about missing API keys.                                          *)
(***************************************************************************)
\* C12: without any provider key the acquisition ends in a configuration
\* error and contacts no provider: the route answers 500 with an error body
\* having queried nobody, and the client component, once a fetch was
\* attempted (the wallet connected, or a button pressed since), shows its
\* configuration error, is not loading and has sent no request.
C12_NoKeyIsAConfigurationError ==
    /\ (rt.pc = "done" /\ rt.address # "" /\ ~rt.zapperApiKey /\ ~rt.alchemyApiKey) =>
          /\ rt.response.status = 500
          /\ rt.response.error = "No API keys configured"
          /\ rt.response.tokens = <<>>
          /\ rt.queried = <<>>
          /\ rt.pageRequests = 0
          /\ fr = FRIdle
    /\ (tb.address # "" /\ ~tb.alchemyApiKey) =>
          /\ tb.error = UiError("config", NoError)
          /\ tb.loadingState = IdleLoading
          /\ scan = ScanOff

\* the wallet connected to a component without a key
C12_Witness ==
    /\ tb.mounted /\ tb.address # "" /\ ~tb.alchemyApiKey
    /\ tb.error.kind = "config"
    /\ scan = ScanOff

(***************************************************************************)
(* Claims about the burn flow of the batch component.                      *)
(***************************************************************************)
\* C13: in the batch component, when the bundle the user confirmed settles
\* with status success, the selection set is empty and the success block is
\* displayed.
C13_SuccessClearsSelection ==
    [][(bt.isConfirming /\ ~bt'.isConfirming /\ bt'.callsStatus = "success") =>
          (bt'.selectedTokens = {} /\ ShowsSuccess(bt'))]_vars

\* two tokens were selected and confirmed, the bundle settled with success
C13_Witness ==
    /\ bt.callsStatus = "success" /\ bt.callsId = 1
    /\ Len(bt.burned) = 2 /\ Len(bt.calls) = 2
    /\ bt.selectedTokens = {}
    /\ ShowsSuccess(bt)

\* C14 as stated: when the wallet rejects the batch call the selection is
\* unchanged, the failure block with its retry button is displayed, and the
\* retry sends a call list identical to the rejected one.
C14_RejectionShowsFailureBlock ==
    [][(bt.isPending /\ bt'.sendCallsError) =>
          /\ bt'.selectedTokens = bt.selectedTokens
          /\ ShowsFailure(bt')
          /\ HandleBurn(bt').calls = bt.calls]_vars

\* C14, amended: when the wallet rejects the batch call the selection is
\* unchanged and the confirmation displays the wallet's error message, not
\* the failure block; the failure block with "Try Again" is displayed when a
\* submitted bundle settles with status failure, the selection unchanged as
\* well.  In both cases the burn button is enabled again and, the token list
\* being the one of the first attempt, sends a call list identical to it.
C14_RejectionKeepsSelection ==
    [][/\ (bt.isPending /\ bt'.sendCallsError) =>
             /\ bt'.selectedTokens = bt.selectedTokens
             /\ ShowsCallsError(bt') /\ ~ShowsFailure(bt')
             /\ BurnEnabled(bt')
             /\ bt'.tokens = bt.listed => HandleBurn(bt').calls = bt.calls
       /\ (bt.isConfirming /\ bt'.callsStatus = "failure") =>
             /\ bt'.selectedTokens = bt.selectedTokens
             /\ ShowsFailure(bt')
             /\ BurnEnabled(bt')
             /\ bt'.tokens = bt.listed => HandleBurn(bt').calls = bt.calls]_vars

\* the wallet rejected the first bundle: its error is displayed over the
\* unchanged selection, the burn button enabled
C14_Witness ==
    /\ bt.sent = 1 /\ bt.sendCallsError /\ ~bt.isPending
    /\ bt.callsStatus = ""
    /\ bt.selectedTokens # {}
    /\ SelectedTokensList(bt) = bt.burned
    /\ ShowsCallsError(bt) /\ BurnEnabled(bt)

(***************************************************************************)
(* Claims about the burn flow of the TokenBurner component.                *)
(***************************************************************************)
\* C15: in the sequential component, once a burn is settled as success the
\* selection set is empty, and once it is settled as failure (the wallet
\* rejects the request, or waiting for the receipt fails) the selection set
\* is what it was before.
C15_SettledSelection ==
    [][/\ (sq.isConfirming /\ sq'.isSuccess) => sq'.selectedTokens = {}
       /\ (\/ sq.isPending /\ sq'.writeError
           \/ sq.isConfirming /\ ~sq'.isConfirming /\ ~sq'.isSuccess)
          => sq'.selectedTokens = sq.selectedTokens]_vars

\* a burn of two tokens has gone through and both are still selected
C15_Witness ==
    /\ sq.isSuccess /\ sq.hash = 2 /\ Len(sq.requests) = 2
    /\ \A k \in 1 .. 2 : sq.requests[k].state = "submitted"
    /\ sq.selectedTokens = sq.before
    /\ Cardinality(sq.selectedTokens) = 2
    /\ SequenceBurnEnabled(sq)

\* C16: in the sequential strategy the transfers of one run are sent one at
\* a time in list order with a 1-second pause between consecutive sends and
\* none after the last; transfer i+1 is sent only after transfer i was
\* submitted without error, the first error stops the sequence and is
\* surfaced as the component's error, and a failed transfer is never sent
\* again by the run.
C16_SequentialSends ==
    [][/\ Len(sq'.requests) <= Len(sq.requests) + 1
       /\ \A k \in 1 .. Len(sq'.requests) - 1 :
             sq'.requests[k + 1].run = sq'.requests[k].run =>
                /\ sq'.requests[k + 1].at = sq'.requests[k].at + SendPause
                /\ sq'.requests[k + 1].to # sq'.requests[k].to
       /\ (sq'.pc = "ready" /\ sq.pc # "ready") => sq'.now = sq.now + (IF sq.pc = "pause" THEN SendPause ELSE 0)
       /\ (Len(sq'.requests) > Len(sq.requests) /\ sq'.i > 1) =>
             sq.requests[Len(sq.requests)].state = "submitted"
       /\ \A k \in 1 .. Len(sq.requests) :
             (sq.requests[k].state = "wallet" /\ sq'.requests[k].state = "rejected"
              /\ sq.requests[k].run = sq.burns) =>
                sq'.pc = "ready" /\ sq'.error # ""]_vars

\* the second transfer of a run was sent although the wallet had rejected
\* the first, and the component's error is not set
C16_Witness ==
    /\ Len(sq.requests) = 2 /\ sq.burns = 1 /\ sq.i = 2
    /\ sq.requests[1].state = "rejected"
    /\ sq.requests[2].state = "wallet"
    /\ sq.requests[2].at = sq.requests[1].at + SendPause
    /\ sq.error = ""

(***************************************************************************)
(* Claims about the order of the displayed list.                           *)
(***************************************************************************)
\* a symbol with the case of its letters gone, and the order of two symbols
\* compared case-insensitively
Fold(symbol) == [k \in 1 .. Len(symbol) |-> LetterRank(symbol[k])]
FoldedLeq(a, b) ==
    LET n == IF Len(a) < Len(b) THEN Len(a) ELSE Len(b)
        p == FirstDifference({k \in 1 .. n : Fold(a)[k] # Fold(b)[k]})
    IN  IF p # 0 THEN Fold(a)[p] < Fold(b)[p] ELSE Len(a) <= Len(b)

\* the members of the allow-list in a list of the component and in a list of
\* the route, whose addresses are plain strings
ClientPriority(tokens) ==
    {k \in 1 .. Len(tokens) : IsPriorityAddress(ToLowerCase(tokens[k].contractAddress))}
RoutePriority(tokens) ==
    {k \in 1 .. Len(tokens) : IsPriorityAddress(Addr(tokens[k].contractAddress, FALSE))}

\* the entries at `priority` come first, and the symbols of each partition
\* ascend when compared case-insensitively
PriorityFirst(tokens, priority) ==
    \A j, k \in 1 .. Len(tokens) :
        j < k =>
           /\ k \in priority => j \in priority
           /\ (j \in priority <=> k \in priority) =>
                 FoldedLeq(tokens[j].symbol, tokens[k].symbol)

\* the symbols ascend when compared case-insensitively
SymbolOrder(tokens) ==
    \A j, k \in 1 .. Len(tokens) :
        j < k => FoldedLeq(tokens[j].symbol, tokens[k].symbol)

\* C17 as stated: after any successful acquisition the list is sorted so
\* that every priority token precedes every non-priority token, and within
\* each partition by symbol compared case-insensitively.
C17_PriorityFirstEverywhere ==
    /\ PriorityFirst(tb.tokens, ClientPriority(tb.tokens))
    /\ rt.pc = "done" => PriorityFirst(rt.response.tokens, RoutePriority(rt.response.tokens))

\* C17: the list of the component's scans is sorted so that every priority
\* token precedes every non-priority token, and within each partition by
\* symbol compared case-insensitively (the priority scan lists priority
\* tokens only); the list the route answers with is sorted by symbol compared
\* case-insensitively, whatever the allow-list says.
C17_PriorityFirstInScans ==
    /\ PriorityFirst(tb.tokens, ClientPriority(tb.tokens))
    /\ ~tb.allTokensLoaded => ClientPriority(tb.tokens) = 1 .. Len(tb.tokens)
    /\ rt.pc = "done" => SymbolOrder(rt.response.tokens)

\* a full scan has listed a priority token before another token whose symbol
\* sorts first
C17_Witness ==
    /\ tb.allTokensLoaded /\ Len(tb.tokens) = 2
    /\ ClientPriority(tb.tokens) = {1}
    /\ LocaleCompare(tb.tokens[2].symbol, tb.tokens[1].symbol) < 0

(***************************************************************************)
(* Claims about handleTokenSelect.                                         *)
(***************************************************************************)
\* the selection the k-th call of the log left
SelectionAfter(k) ==
    IF k = Len(sel.log) THEN sel.selectedTokens ELSE sel.sets[k + 1]

\* the calls k and k + 1 are handleTokenSelect(a, true) and
\* handleTokenSelect(a, false) of one address
SelectThenDeselect(k) ==
    /\ k + 1 <= Len(sel.log)
    /\ sel.log[k].checked /\ ~sel.log[k + 1].checked
    /\ sel.log[k].contractAddress = sel.log[k + 1].contractAddress

WithoutFetch(fetches, k) ==
    SubSeq(fetches, 1, k - 1) \o SubSeq(fetches, k + 1, Len(fetches))

\* C19: when the connected address changes while a token fetch for the
\* previous address is in flight, the fetch stays in flight next to the one
\* started for the new address, and whichever fetch settles then has the
\* last word: its list is the displayed one (or its failure the error
\* shown), the connected address notwithstanding.
C19_LateAnswerIsAuthoritative ==
    [][/\ (bt.address # "" /\ bt'.address # bt.address) =>
             bt'.fetches = Append(bt.fetches, bt'.address)
       /\ \A k \in 1 .. Len(bt.fetches) :
             bt'.fetches = WithoutFetch(bt.fetches, k) =>
                /\ bt'.phase = "idle"
                /\ \/ bt'.tokensOf = bt.fetches[k] /\ bt'.error = bt.error
                   \/ bt'.error = "Failed to fetch tokens" /\ bt'.tokens = bt.tokens]_vars

\* the list fetched for the previous address is displayed, a token of it
\* selected, while the other address is the connected one: both fetches
\* answered with a list, the one for the previous address last
C19_Witness ==
    /\ bt.address # "" /\ bt.tokensOf # "" /\ bt.tokensOf # bt.address
    /\ bt.fetches = <<>> /\ bt.fetched = 2 /\ bt.error = ""
    /\ ShowsTokenList(bt)
    /\ bt.selectedTokens # {} /\ SelectedTokensList(bt) # <<>>

\* the scan is between its first await and its end
ScanRunning(a) == a.pc \in {"balances", "loop", "metadata"}

\* the rendered component is in a loading phase
Loading == tb.loadingState.phase # "idle" \/ bt.phase # "idle"

\* C20: every token fetch that fails (retries exhausted, a provider error
\* payload, a non-OK answer of /api/tokens) leaves the component idle with an
\* error message set, at the step that handles the failure, and no fetch
\* leaves the component in a loading phase for ever.
C20_FailedFetchReturnsToIdle ==
    /\ [][/\ (ScanRunning(scan) /\ scan'.pc = "failed") =>
                tb'.loadingState = IdleLoading /\ tb'.error # NoUiError
          /\ (Len(bt'.fetches) < Len(bt.fetches) /\ bt'.failed) =>
                bt'.phase = "idle" /\ bt'.error # ""]_vars
    /\ Loading ~> ~Loading

\* a scan of the TokenBurner component ran out of retries and the component
\* is idle with the error
C20_Witness ==
    /\ scan.pc = "failed" /\ tb.error.kind = "priority"
    /\ tb.error.cause = HTTPError(500)
    /\ tb.loadingState = IdleLoading

\* C21: a 2xx answer that carries an error payload ends that provider's turn.
\* After Zapper's `errors` no further Zapper request is made, the token list
\* stays empty and the Alchemy fetch starts when its key is configured; after
\* Alchemy's `error` no further page is requested, the pages gathered so far
\* are dropped and the handler answers without Alchemy tokens.
C21_ErrorPayloadIsTerminal ==
    [][/\ (/\ rt.pc = "zapper" /\ fr.pc = "returned"
           /\ rt'.zapper = "threw" /\ rt'.zapperError = ZapperError("errors")) =>
              /\ rt'.pc # "zapper"
              /\ rt'.queried[1] = "zapper"
              /\ \A k \in 2 .. Len(rt'.queried) : rt'.queried[k] # "zapper"
              /\ rt'.allTokens = <<>>
              /\ rt.alchemyApiKey =>
                    /\ rt'.pc = "alchemy"
                    /\ rt'.queried = <<"zapper", "alchemy-portfolio">>
                    /\ fr' = FRCall(Undefined, FALSE)
              /\ ~rt.alchemyApiKey =>
                    /\ rt'.pc = "done"
                    /\ rt'.response = TokensResponse(<<>>, "none")
       /\ (rt.pc = "alchemy" /\ fr.pc = "returned" /\ rt'.alchemy = "threw") =>
              /\ rt'.pc = "done"
              /\ fr' = FRIdle
              /\ rt'.pageRequests = rt.pageRequests
              /\ rt'.response = TokensResponse(<<>>, "none")]_vars

\* both payloads in one request: Zapper's errors, then Alchemy's error on a
\* page after tokens had been gathered
C21_Witness ==
    /\ rt.pc = "done"
    /\ rt.zapper = "threw" /\ rt.zapperError = ZapperError("errors")
    /\ rt.alchemy = "threw" /\ fr.pc = "idle"
    /\ rt.pageRequests > 1
    /\ rt.queried = <<"zapper", "alchemy-portfolio">>

(***************************************************************************)
(* The token list from the providers' answers to the screen: the route,    *)
(* the scans of the TokenBurner component and the batch component, which   *)
(* lists what /api/tokens answers.                                         *)
(***************************************************************************)
\* the blocks the TokenBurner component renders below its header, the wallet
\* connected on Base and no confirmation open
BurnerView(t) ==
    IF ~t.mounted \/ t.address = "" THEN {"connect"}
    ELSE (IF t.loadingState.phase # "idle" THEN {"loading"} ELSE {})
         \cup (IF t.error # NoUiError THEN {"error"} ELSE {})
         \cup (IF t.loadingState.phase = "idle" /\ t.error = NoUiError
                      /\ Len(t.tokens) = 0 THEN {"noTokens"} ELSE {})
         \cup (IF t.loadingState.phase = "idle" /\ Len(t.tokens) > 0 THEN {"list"} ELSE {})

\* what the batch component renders: the connect prompt, the confirmation
\* in place of everything else, or the blocks of the main view
BatchView(b) ==
    IF b.address = "" THEN {"connect"}
    ELSE IF b.showConfirmation THEN {"confirmation"}
    ELSE (IF b.phase # "idle" THEN {"loading"} ELSE {})
         \cup (IF b.error # "" THEN {"error"} ELSE {})
         \cup (IF b.phase = "idle" /\ b.error = "" /\ Len(b.tokens) = 0 THEN {"noTokens"} ELSE {})
         \cup (IF b.phase = "idle" /\ Len(b.tokens) > 0 THEN {"list"} ELSE {})

InitListing == InitAcquisition \/ InitBurnCalls

NextListing == NextAcquisition \/ NextBurnCalls

SpecListing == InitListing /\ [][NextListing]_vars

\* every balance the providers of the request reported is zero
RouteAllZero ==
    /\ \A k \in 1 .. Len(rt.zapperEdges) :
          /\ rt.zapperEdges[k].balance = 0
          /\ NumberOfString(rt.zapperEdges[k].balanceRaw) = 0
    /\ \A k \in 1 .. Len(rt.rawTokens) : ParseInt16(rt.rawTokens[k].tokenBalance) = 0

\* every balance the finished scan was answered with is zero
ScanAllZero ==
    /\ scan.pc = "done"
    /\ \A k \in 1 .. Len(scan.answered) : ParseInt16(scan.answered[k].tokenBalance) = 0

\* the list is empty, loading is idle and there is no error
BatchEmptyIdle ==
    bt.address # "" /\ bt.phase = "idle" /\ bt.error = "" /\ Len(bt.tokens) = 0

\* C22 as stated: when every reported balance is zero the list is empty, and
\* an empty list with loading idle and no error renders "No tokens found"
\* and nothing that selects or burns.
C22_EmptyListShowsNoTokens ==
    /\ (rt.pc = "done" /\ rt.response.status = 200 /\ RouteAllZero) =>
          rt.response.tokens = <<>>
    /\ ScanAllZero =>
          /\ tb.tokens = <<>>
          /\ (tb.loadingState.phase = "idle" /\ tb.error = NoUiError) =>
                BurnerView(tb) = {"noTokens"}
    /\ BatchEmptyIdle => BatchView(bt) = {"noTokens"}

\* C22: when every reported balance is zero the list is empty, and an empty
\* list with loading idle, no error and no confirmation open renders "No
\* tokens found" and nothing that selects or burns; an open confirmation is
\* rendered in place of the main view whatever the list holds.
C22_EmptyListShowsNoTokensInMainView ==
    /\ (rt.pc = "done" /\ rt.response.status = 200 /\ RouteAllZero) =>
          rt.response.tokens = <<>>
    /\ ScanAllZero =>
          /\ tb.tokens = <<>>
          /\ (tb.loadingState.phase = "idle" /\ tb.error = NoUiError) =>
                BurnerView(tb) = {"noTokens"}
    /\ BatchEmptyIdle =>
          BatchView(bt) = IF bt.showConfirmation THEN {"confirmation"}
                          ELSE {"noTokens"}

\* a full scan answered with two zero balances, its list empty on the screen
C22_Witness ==
    /\ ScanAllZero /\ scan.kind = "all" /\ Len(scan.answered) = 2
    /\ tb.tokens = <<>>
    /\ BurnerView(tb) = {"noTokens"}

\* the full scan finishes in this step
FullScanFinishes == scan.kind = "all" /\ scan.pc # "done" /\ scan'.pc = "done"

\* the token is on the list
Listed(tokens, contractAddress) ==
    \E k \in 1 .. Len(tokens) :
        ToLowerCase(tokens[k].contractAddress) = ToLowerCase(contractAddress)

\* the finished scan was answered with a positive balance of the token and
\* found its metadata
ScanFound(a, contractAddress) ==
    \E k \in 1 .. Len(a.answered) :
        /\ ToLowerCase(a.answered[k].contractAddress) = ToLowerCase(contractAddress)
        /\ HasBalance(a.answered[k])
        /\ a.answered[k].contractAddress \notin a.noMetadata

\* C23 as stated: every token on the list after the priority phase is on
\* the list after the full scan.
C23_FullScanKeepsPriorityList ==
    [][(FullScanFinishes /\ ~tb.allTokensLoaded) =>
          \A k \in 1 .. Len(tb.tokens) :
              Listed(tb'.tokens, tb.tokens[k].contractAddress)]_vars

\* C23: the list after a full scan is the full scan's result alone, priority
\* tokens first and then by symbol; a token listed before stays exactly when
\* the full scan was answered with a positive balance of it and found its
\* metadata.
C23_FullScanReplacesList ==
    [][FullScanFinishes =>
          /\ tb'.tokens = SortByPriorityThenSymbol(scan'.tokensWithMetadata)
          /\ \A k \in 1 .. Len(tb'.tokens) :
                ScanFound(scan', tb'.tokens[k].contractAddress)
          /\ \A k \in 1 .. Len(tb.tokens) :
                Listed(tb'.tokens, tb.tokens[k].contractAddress)
                    <=> ScanFound(scan', tb.tokens[k].contractAddress)]_vars

\* a full scan started from "Load All Tokens", so with priority tokens on
\* the list, has finished and none of them is listed any more
C23_Witness ==
    /\ scan.kind = "all" /\ scan.pc = "done"
    /\ tb.allTokensLoaded
    /\ tb.tokens # <<>>
    /\ \A k \in 1 .. Len(tb.tokens) : ~tb.tokens[k].isPriority

(***************************************************************************)
(* checkTokenApproval of lib/batched-transactions.ts.  The chain is the    *)
(* allowance table of the token contract, by <<owner, spender>>; a bigint  *)
(* is its value.                                                           *)
(***************************************************************************)
\* the largest amount and allowance
MaxAmount == 3

\* the accounts an allowance is between
Parties == {"0xo1", "0xs1"}

\* the allowance tables of the token contract
Chains == [Parties \X Parties -> {0, 1, MaxAmount}]

\* checkTokenApproval(tokenAddress, owner, spender, amount, publicClient) as
\* it is called; publicClient: is there a client (usePublicClient gives
\* undefined without one); request is the readContract call made, result
\* and rejected how the promise settled
ApprovalCall(tokenAddress, owner, spender, amount, publicClient, chain) ==
    [pc |-> "called", fn |-> "checkTokenApproval", tokenAddress |-> tokenAddress,
     owner |-> owner, spender |-> spender, amount |-> amount,
     publicClient |-> publicClient, chain |-> chain,
     request |-> <<>>, read |-> "none", result |-> FALSE, rejected |-> FALSE]

\* the catch block: the error is logged and false returned
ApprovalCatch(c) == [c EXCEPT !.pc = "returned", !.result = FALSE]

\* checkTokenApproval asking for the allowance of <<spender, owner>>
checkTokenApproval_Swapped(c) ==
    IF ~c.publicClient THEN ApprovalCatch(c)
    ELSE [c EXCEPT !.pc = "reading",
                   !.request = [address |-> c.tokenAddress,
                                functionName |-> "allowance",
                                args |-> <<c.spender, c.owner>>]]

\* checkTokenApproval up to its await: the readContract call, or the
\* TypeError of calling it on undefined, which lands in the catch
checkTokenApproval(c) ==
    IF ~c.publicClient THEN ApprovalCatch(c)
    ELSE [c EXCEPT !.pc = "reading",
                   !.request = [address |-> c.tokenAddress,
                                functionName |-> "allowance",
                                args |-> <<c.owner, c.spender>>]]

\* what the contract answers a request with
ReadContract(chain, request) == chain[request.args]

\* checkTokenApproval with `allowance > amount`
AllowanceRead_Strict(c) ==
    [c EXCEPT !.pc = "returned", !.read = "returned",
              !.result = ReadContract(c.chain, c.request) > c.amount]

\* checkTokenApproval past its await: `return allowance >= amount`
AllowanceRead(c) ==
    [c EXCEPT !.pc = "returned", !.read = "returned",
              !.result = ReadContract(c.chain, c.request) >= c.amount]

\* readContract rejected: the catch
AllowanceReadFailed(c) == ApprovalCatch([c EXCEPT !.read = "failed"])

\* the function runs up to its await
CheckTokenApproval ==
    /\ lib.pc = "called" /\ lib.fn = "checkTokenApproval"
    /\ lib' = checkTokenApproval(lib)
    /\ UNCHANGED <<fr, rt, tb, scan, bt, sq, sel>>

\* the node answers the read
AllowanceReadReturns ==
    /\ lib.pc = "reading"
    /\ lib' = AllowanceRead(lib)
    /\ UNCHANGED <<fr, rt, tb, scan, bt, sq, sel>>

\* the read fails: the request, the node or the contract
AllowanceReadFails ==
    /\ lib.pc = "reading"
    /\ lib' = AllowanceReadFailed(lib)
    /\ UNCHANGED <<fr, rt, tb, scan, bt, sq, sel>>

InitApproval ==
    /\ fr = FRIdle /\ rt = RouteOff /\ tb = BurnerOff /\ scan = ScanOff
    /\ bt = BatchOff /\ sq = SequenceOff /\ sel = SelectionOff
    /\ \E tokenAddress \in {"0xaa", "0xbb"}, owner \in Parties, spender \in Parties,
          amount \in 0 .. MaxAmount, publicClient \in BOOLEAN, chain \in Chains :
          lib = ApprovalCall(tokenAddress, owner, spender, amount, publicClient, chain)

NextApproval ==
    \/ CheckTokenApproval
    \/ AllowanceReadReturns
    \/ AllowanceReadFails

SpecApproval == InitApproval /\ [][NextApproval]_vars

C25_SourceNamesTheProvider ==
    (rt.pc = "done" /\ rt.response.status = 200) =>
        /\ rt.response.source \in {"zapper", "alchemy-portfolio", "none"}
        /\ rt.response.source = "none" <=> rt.response.tokens = <<>>
        /\ rt.response.source = "zapper" =>
              /\ rt.zapper = "returned" /\ rt.alchemy = "none"
              /\ rt.response.tokens =
                    SortBySymbol(ZapperProcess([kind |-> "edges",
                                                edges |-> rt.zapperEdges]).tokens)
        /\ rt.response.source = "alchemy-portfolio" =>
              /\ rt.alchemy = "returned"
              /\ rt.response.tokens = SortBySymbol(AlchemyProcess(rt.rawTokens))

\* Zapper answered with edges, none of them kept, and the list is Alchemy's
C25_Witness ==
    /\ rt.pc = "done" /\ rt.response.status = 200
    /\ rt.response.source = "alchemy-portfolio"
    /\ rt.zapper = "returned" /\ Len(rt.zapperEdges) > 0
    /\ Len(rt.response.tokens) > 0

\* handleBurnTokens reaches sendCalls in this step
BurnSubmits == bt'.sent > bt.sent

\* the addresses of the list
ListedAddresses(b) == {b.tokens[k].contractAddress : k \in 1 .. Len(b.tokens)}

\* C26 as stated: a burn submits as many calls as the selection set holds
\* addresses, every selected address being on the list.
C26_CallsMatchSelectionSize ==
    [][BurnSubmits =>
          /\ bt.selectedTokens \subseteq ListedAddresses(bt)
          /\ Len(bt'.calls) = Cardinality(bt.selectedTokens)]_vars

\* C26: a burn submits one call for each token of the current list whose
\* address is selected, in the order of the list, which is what the
\* confirmation counts; a selected address that is not on the list has no
\* call, so the calls are at most as many as the selection set holds.
C26_CallsMatchSelectedListedTokens ==
    [][BurnSubmits =>
          /\ {bt'.calls[k].to : k \in 1 .. Len(bt'.calls)}
                = bt.selectedTokens \cap ListedAddresses(bt)
          /\ Len(bt'.calls) = Cardinality(bt.selectedTokens \cap ListedAddresses(bt))
          /\ Len(bt'.calls) <= Cardinality(bt.selectedTokens)
          /\ \A j, k \in 1 .. Len(bt.tokens) :
                (/\ j < k
                 /\ bt.tokens[j].contractAddress \in bt.selectedTokens
                 /\ bt.tokens[k].contractAddress \in bt.selectedTokens) =>
                    \E m, n \in 1 .. Len(bt'.calls) :
                        /\ m < n
                        /\ bt'.calls[m].to = bt.tokens[j].contractAddress
                        /\ bt'.calls[n].to = bt.tokens[k].contractAddress]_vars

\* a bundle is with the wallet that holds fewer calls than the selection
\* holds addresses: the list was replaced after the selection was made
C26_Witness ==
    /\ bt.isPending /\ bt.sent > 0
    /\ Len(bt.calls) > 0
    /\ Len(bt.calls) < Cardinality(bt.selectedTokens)
    /\ bt.tokensOf = bt.address

\* C27: when allTokensLoaded is set and a scan has finished last, that scan
\* was a full scan for the connected address: a list of a priority scan is
\* never on the screen with "Load All Tokens" hidden.
C27_AllTokensLoadedMeansFullScan ==
    (tb.allTokensLoaded /\ scan.pc = "done") =>
        scan.kind = "all" /\ scan.address = tb.address

\* the list of a priority scan is on the screen, allTokensLoaded still set
\* by an earlier full scan: "Load All Tokens" is not rendered
C27_Witness ==
    /\ scan.pc = "done" /\ scan.kind = "priority"
    /\ tb.allTokensLoaded
    /\ tb.tokens # <<>>
    /\ BurnerView(tb) = {"list"}

(***************************************************************************)
(* The submissions of both components: the bundles of the batch component  *)
(* and the wallet requests of the TokenBurner component.                   *)
(***************************************************************************)
InitSubmission == InitBurnCalls \/ InitSequentialBurn

NextSubmission == NextBurnCalls \/ NextSequentialBurn

SpecSubmission == InitSubmission /\ [][NextSubmission]_vars

\* a submission is with the wallet or awaits its confirmation
BatchInFlight == bt.isPending \/ bt.isConfirming
SequenceInFlight == sq.isPending \/ sq.isConfirming

\* while a submission is in flight the user starts no burn and an open
\* confirmation stays open
ButtonsHold ==
    /\ BatchInFlight =>
          /\ ~BurnEnabled(bt)
          /\ bt'.sent = bt.sent
          /\ bt.showConfirmation => bt'.showConfirmation
    /\ SequenceInFlight =>
          /\ ~SequenceBurnEnabled(sq)
          /\ sq'.burns = sq.burns
          /\ sq.showConfirmation => sq'.showConfirmation

C29_NoResubmitAfterSuccess ==
    [][/\ (bt'.callsStatus = "success" /\ bt.callsStatus # "success") =>
             /\ bt'.selectedTokens = {}
             /\ HandleBurn(bt') = bt'
       /\ (bt.callsStatus = "success" /\ bt.selectedTokens = {}) =>
             /\ HandleBurn(bt) = bt
             /\ bt'.sent = bt.sent
       /\ (bt.callsStatus = "success"
           /\ ~(bt'.selectedTokens \subseteq bt.selectedTokens)) =>
             ShowsTokenList(bt)
       /\ (bt.callsStatus = "success" /\ bt'.sent > bt.sent) =>
             /\ bt.selectedTokens # {}
             /\ Len(bt'.calls) > 0
             /\ \A k \in 1 .. Len(bt'.calls) : bt'.calls[k].to \in bt.selectedTokens]_vars

\* the burn has settled with success, the confirmation is open with its
\* burn button enabled, and the button submits nothing
C29_Witness ==
    /\ bt.callsStatus = "success" /\ bt.sent = 1
    /\ BurnEnabled(bt)
    /\ bt.selectedTokens = {}
    /\ bt.burned # <<>>
    /\ HandleBurn(bt) = bt

\* the (to, data) pairs of a list of calls
CallPairs(calls) == [k \in 1 .. Len(calls) |-> <<calls[k].to, calls[k].data>>]

\* C30: the calls a builder returned are, as (to, data) pairs, those of
\* createTokenBurnBatchCalls and those of transactionStepsToBatchCalls over
\* createTokenBurnSteps on the same transfers and burn address: one call
\* per transfer in the order of the transfers, to the token contract, the
\* data a transfer of the amount to the burn address, and no value.
C30_BuildersAgree ==
    lib.pc = "calls" =>
        /\ CallPairs(lib.calls)
              = CallPairs(createTokenBurnBatchCalls(lib.tokenTransfers, lib.burnAddress))
        /\ CallPairs(lib.calls)
              = CallPairs(transactionStepsToBatchCalls(
                              createTokenBurnSteps(lib.tokenTransfers, lib.burnAddress)))
        /\ Len(lib.calls) = Len(lib.tokenTransfers)
        /\ \A k \in 1 .. Len(lib.calls) :
              /\ lib.calls[k].to = lib.tokenTransfers[k].tokenAddress
              /\ lib.calls[k].data.selector = Selector("transfer")
              /\ lib.calls[k].data.args[2] = lib.tokenTransfers[k].amount
              /\ lib.calls[k].value = Undefined

\* two transfers went through the steps and their conversion, the burn
\* address given
C30_Witness ==
    /\ lib.pc = "calls" /\ lib.fn = "createTokenBurnSteps"
    /\ Len(lib.calls) = 2
    /\ lib.burnAddress = OtherBurnAddress
    /\ lib.calls[1].data.args[1] = AddressWord(OtherBurnAddress)

====
